---- MODULE Spec2Model ----
(***************************************************************************)
(* Fusion and field-mapping engine of the Fluxity document processor:      *)
(* applyFieldMappings (config/field-mappings.ts) and FusionEngine.combine  *)
(* (services/fusion-engine.ts).                                            *)
(*                                                                         *)
(* Representation.  A JavaScript string is a sequence of one-character     *)
(* strings, so that toLowerCase, trim and includes are computed.  A        *)
(* JavaScript value is a record tagged by its type in field t.  A number   *)
(* is an integer count of thousandths (0.95 is 950, 1234.56 is 1234560).   *)
(* An object with string keys (keyValuePairs, extracted_data) is the       *)
(* sequence of its entries in Object.entries order, with distinct keys.    *)
(***************************************************************************)
EXTENDS Integers, Sequences, FiniteSets, TLC

VARIABLES
  pc,              \* where the running call is: "called", "mapping", "returned", "raised"
  extractedData,   \* applyFieldMappings: its argument
  idx,             \* applyFieldMappings: entries of extractedData already visited
  fm,              \* applyFieldMappings: mapped, unmapped, mappingDetails so far
  textractResult,  \* combine: source A
  openaiResult,    \* combine: source B
  result,          \* combine: the HybridExtractionResult returned or the exception raised
  call,            \* one application of a helper function: fn, args and ret
  history,         \* applyFieldMappings: input and output of the calls completed before
  invocations,     \* the combine invocations in flight, each with its own locals
  doc,             \* processDocument: the stored row of the document (status, progress)
  writes,          \* processDocument: the status writes issued so far
  extraction,      \* processDocument: where the two extractions and the fusion are
  records,         \* handler: the records of the batch, each with its job and progress
  tmp              \* the files under /tmp, by name

vars ==
  <<pc, extractedData, idx, fm, textractResult, openaiResult, result,
    call, history, invocations, doc, writes, extraction, records, tmp>>

\* the state of the handler and of processDocument
platform == <<doc, writes, extraction, records, tmp>>

\* no helper function applied, no earlier call, no invocation in flight
NoCall == [fn |-> "none"]
NoRow == [status |-> "none"]
NoExtraction == [t |-> "none"]

\* no document in process, no batch
offline ==
  /\ doc = NoRow /\ writes = <<>> /\ extraction = NoExtraction
  /\ records = <<>> /\ tmp = <<>>

idle == call = NoCall /\ history = <<>> /\ invocations = <<>> /\ offline

\* ------------------------------------------------------------------------
\* JavaScript values
\* ------------------------------------------------------------------------
JNull == [t |-> "null"]
JUndefined == [t |-> "undefined"]
JNaN == [t |-> "NaN"]
JStr(s) == [t |-> "string", s |-> s]
JNum(n) == [t |-> "number", n |-> n]
JBool(b) == [t |-> "boolean", b |-> b]
\* a GenerativeFieldGuess object { value, confidence }; an absent property
\* reads as JUndefined
JGuess(v, c) == [t |-> "object", value |-> v, confidence |-> c]

\* ToBoolean
Truthy(v) ==
  CASE v.t = "null" -> FALSE
    [] v.t = "undefined" -> FALSE
    [] v.t = "NaN" -> FALSE
    [] v.t = "string" -> v.s # <<>>
    [] v.t = "number" -> v.n # 0
    [] v.t = "boolean" -> v.b
    [] OTHER -> TRUE

\* a || b
OrElse(a, b) == IF Truthy(a) THEN a ELSE b

\* v !== null && v !== undefined
NotNullish(v) == v.t # "null" /\ v.t # "undefined"

\* obj?.prop for prop in {value, confidence}: undefined on null, undefined
\* and on a primitive, which has no such property
GetValue(v) == IF v.t = "object" THEN v.value ELSE JUndefined
GetConfidence(v) == IF v.t = "object" THEN v.confidence ELSE JUndefined

\* ------------------------------------------------------------------------
\* Strings
\* ------------------------------------------------------------------------
UPPER ==
  <<"A","B","C","D","E","F","G","H","I","J","K","L","M",
    "N","O","P","Q","R","S","T","U","V","W","X","Y","Z">>
LOWER ==
  <<"a","b","c","d","e","f","g","h","i","j","k","l","m",
    "n","o","p","q","r","s","t","u","v","w","x","y","z">>
DIGITS == <<"0","1","2","3","4","5","6","7","8","9">>

SetMin(S) == CHOOSE x \in S : \A y \in S : x <= y
SetMax(S) == CHOOSE x \in S : \A y \in S : x >= y

lowerChar(c) ==
  IF \E i \in 1..26 : UPPER[i] = c
  THEN LOWER[CHOOSE i \in 1..26 : UPPER[i] = c]
  ELSE c
upperChar(c) ==
  IF \E i \in 1..26 : LOWER[i] = c
  THEN UPPER[CHOOSE i \in 1..26 : LOWER[i] = c]
  ELSE c
toLowerCase(s) == [i \in 1..Len(s) |-> lowerChar(s[i])]
toUpperCase(s) == [i \in 1..Len(s) |-> upperChar(s[i])]

isWhiteSpace(c) == c \in {" ", "\t", "\n", "\r"}
trim(s) ==
  LET keep == {i \in 1..Len(s) : ~isWhiteSpace(s[i])}
  IN  IF keep = {} THEN <<>> ELSE SubSeq(s, SetMin(keep), SetMax(keep))

\* s.includes(sub)
includes(s, sub) ==
  \E i \in 0..(Len(s) - Len(sub)) : SubSeq(s, i + 1, i + Len(sub)) = sub

isDigit(c) == \E i \in 1..10 : DIGITS[i] = c
digitValue(c) == (CHOOSE i \in 1..10 : DIGITS[i] = c) - 1

\* s.replace(/[^0-9...]/g, ''): the digits and the allowed characters of s
RECURSIVE keepChars(_, _)
keepChars(s, allowed) ==
  IF s = <<>> THEN <<>>
  ELSE IF isDigit(Head(s)) \/ Head(s) \in allowed
       THEN <<Head(s)>> \o keepChars(Tail(s), allowed)
       ELSE keepChars(Tail(s), allowed)

\* s.replace(c, '') for a one-character string c: the first occurrence only
removeFirst(s, c) ==
  LET at == {i \in 1..Len(s) : s[i] = c}
  IN  IF at = {} THEN s
      ELSE SubSeq(s, 1, SetMin(at) - 1) \o SubSeq(s, SetMin(at) + 1, Len(s))

\* s.replace(c, d) for one-character c and a string d: the first occurrence only
replaceFirst(s, c, d) ==
  LET at == {i \in 1..Len(s) : s[i] = c}
  IN  IF at = {} THEN s
      ELSE SubSeq(s, 1, SetMin(at) - 1) \o d \o SubSeq(s, SetMin(at) + 1, Len(s))

\* length of the longest prefix of s made of digits
RECURSIVE digitPrefix(_)
digitPrefix(s) ==
  IF s # <<>> /\ isDigit(Head(s)) THEN 1 + digitPrefix(Tail(s)) ELSE 0

\* the number a digit string denotes
RECURSIVE digitsValue(_)
digitsValue(s) ==
  IF s = <<>> THEN 0
  ELSE 10 * digitsValue(SubSeq(s, 1, Len(s) - 1)) + digitValue(s[Len(s)])

\* the number [-]int.frac in thousandths; digits past the third decimal are
\* dropped
decimalValue(neg, int, frac) ==
  (IF neg THEN 0 - 1 ELSE 1)
    * (1000 * digitsValue(int) + digitsValue(SubSeq(frac \o <<"0","0","0">>, 1, 3)))

\* the digits after a leading '.', none when s does not start with '.'
fractionDigits(s) ==
  IF s # <<>> /\ Head(s) = "." THEN SubSeq(s, 2, 1 + digitPrefix(Tail(s))) ELSE <<>>

parseUnsigned(neg, body, ni) ==
  IF ni = 0 /\ fractionDigits(body) = <<>> THEN JNaN
  ELSE JNum(decimalValue(neg, SubSeq(body, 1, ni),
                         fractionDigits(SubSeq(body, ni + 1, Len(body)))))

\* parseFloat on a string of digits, '.', ',' and '-': the longest prefix that
\* is [-]digits[.digits], NaN when that prefix holds no digit
parseFloat(s) ==
  IF s # <<>> /\ Head(s) = "-"
  THEN parseUnsigned(TRUE, Tail(s), digitPrefix(Tail(s)))
  ELSE parseUnsigned(FALSE, s, digitPrefix(s))

\* ------------------------------------------------------------------------
\* Dates: new Date(v).toISOString().split('T')[0]
\* ------------------------------------------------------------------------
allDigits(s) == \A i \in 1..Len(s) : isDigit(s[i])

isLeapYear(y) == y % 4 = 0 /\ (y % 100 # 0 \/ y % 400 = 0)
daysInMonth(y, m) ==
  IF m = 2 THEN (IF isLeapYear(y) THEN 29 ELSE 28)
  ELSE IF m \in {4, 6, 9, 11} THEN 30 ELSE 31

validDay(y, m, d) == m \in 1..12 /\ d >= 1 /\ d <= daysInMonth(y, m)

pad2(s) == IF Len(s) = 1 THEN <<"0">> \o s ELSE s

InvalidDate == [valid |-> FALSE, iso |-> <<>>]
ValidDate(iso) == [valid |-> TRUE, iso |-> iso]

\* hh:mm:ss, optionally followed by Z
validTime(s) ==
  LET body == IF s # <<>> /\ s[Len(s)] = "Z" THEN SubSeq(s, 1, Len(s) - 1) ELSE s
  IN  /\ Len(body) = 8
      /\ body[3] = ":" /\ body[6] = ":"
      /\ allDigits(SubSeq(body, 1, 2)) /\ digitsValue(SubSeq(body, 1, 2)) < 24
      /\ allDigits(SubSeq(body, 4, 5)) /\ digitsValue(SubSeq(body, 4, 5)) < 60
      /\ allDigits(SubSeq(body, 7, 8)) /\ digitsValue(SubSeq(body, 7, 8)) < 60

\* YYYY-MM-DD, alone or followed by T and a time of day
isoDate(s) ==
  IF /\ Len(s) >= 10
     /\ s[5] = "-" /\ s[8] = "-"
     /\ allDigits(SubSeq(s, 1, 4)) /\ allDigits(SubSeq(s, 6, 7))
     /\ allDigits(SubSeq(s, 9, 10))
     /\ validDay(digitsValue(SubSeq(s, 1, 4)), digitsValue(SubSeq(s, 6, 7)),
                 digitsValue(SubSeq(s, 9, 10)))
     /\ \/ Len(s) = 10
        \/ Len(s) > 11 /\ s[11] = "T" /\ validTime(SubSeq(s, 12, Len(s)))
  THEN ValidDate(SubSeq(s, 1, 10))
  ELSE InvalidDate

\* M/D/YYYY, the month and day of one or two digits
usDate(s) ==
  LET at == {i \in 1..Len(s) : s[i] = "/"}
      a == SetMin(at)
      b == SetMax(at)
      mm == SubSeq(s, 1, a - 1)
      dd == SubSeq(s, a + 1, b - 1)
      yy == SubSeq(s, b + 1, Len(s))
  IN  IF /\ Cardinality(at) = 2
         /\ Len(mm) \in 1..2 /\ Len(dd) \in 1..2 /\ Len(yy) = 4
         /\ allDigits(mm) /\ allDigits(dd) /\ allDigits(yy)
         /\ validDay(digitsValue(yy), digitsValue(mm), digitsValue(dd))
      THEN ValidDate(yy \o <<"-">> \o pad2(mm) \o <<"-">> \o pad2(dd))
      ELSE InvalidDate

firstValid(d1, d2) == IF d1.valid THEN d1 ELSE d2

EPOCH_DAY == ValidDate(<<"1","9","7","0","-","0","1","-","0","1">>)

\* The day (UTC, the time zone of the Lambda runtime) of new Date(v).  Of the
\* strings the JavaScript date parser accepts, the model covers
\* YYYY-MM-DD[Thh:mm:ss[Z]] and M/D/YYYY; every other string is an Invalid
\* Date.  A number is a count of milliseconds since the epoch; the model
\* covers the first day.
DateOf(v) ==
  CASE v.t = "string" -> firstValid(isoDate(v.s), usDate(v.s))
    [] v.t = "number" /\ v.n >= 0 /\ v.n \div 1000 < 86400000 -> EPOCH_DAY
    [] v.t = "null" -> EPOCH_DAY
    [] v.t = "boolean" -> EPOCH_DAY
    [] v.t \in {"undefined", "NaN", "object"} -> InvalidDate

\* ------------------------------------------------------------------------
\* config/field-mappings.ts
\* ------------------------------------------------------------------------
isoOrOriginal(date, value) == IF date.valid THEN JStr(date.iso) ELSE value

\* parseDate: YYYY-MM-DD, or the argument itself when toISOString throws
parseDate(value) == isoOrOriginal(DateOf(value), value)

\* faulty variant of parseAmount: no '|| 0', NaN is returned
parseAmountOrNaN(value) == parseFloat(keepChars(value.s, {".", "-"}))

\* parseAmount: strip all but digits, '.' and '-', then parseFloat(...) || 0
parseAmount(value) ==
  OrElse(parseFloat(keepChars(value.s, {".", "-"})), JNum(0))

\* canonical field names, as character sequences
S_invoicing_party ==
  <<"i","n","v","o","i","c","i","n","g","_","p","a","r","t","y">>
S_supplier_invoice_id_by_invcg_party ==
  <<"s","u","p","p","l","i","e","r","_","i","n","v","o","i","c","e","_","i","d","_","b","y","_","i","n","v","c","g","_","p","a","r","t","y">>
S_document_date ==
  <<"d","o","c","u","m","e","n","t","_","d","a","t","e">>
S_posting_date ==
  <<"p","o","s","t","i","n","g","_","d","a","t","e">>
S_invoice_gross_amount ==
  <<"i","n","v","o","i","c","e","_","g","r","o","s","s","_","a","m","o","u","n","t">>
S_supplier_invoice_item_amount ==
  <<"s","u","p","p","l","i","e","r","_","i","n","v","o","i","c","e","_","i","t","e","m","_","a","m","o","u","n","t">>
S_supplier_invoice_item_text ==
  <<"s","u","p","p","l","i","e","r","_","i","n","v","o","i","c","e","_","i","t","e","m","_","t","e","x","t">>
S_document_currency ==
  <<"d","o","c","u","m","e","n","t","_","c","u","r","r","e","n","c","y">>
S_tax_code ==
  <<"t","a","x","_","c","o","d","e">>
S_assignment_reference ==
  <<"a","s","s","i","g","n","m","e","n","t","_","r","e","f","e","r","e","n","c","e">>
S_accounting_document_header_text ==
  <<"a","c","c","o","u","n","t","i","n","g","_","d","o","c","u","m","e","n","t","_","h","e","a","d","e","r","_","t","e","x","t">>

FIELD_MAPPINGS == <<
  [ targetField |-> S_invoicing_party,
    sourceVariations |-> <<
      <<"v","e","n","d","o","r">>,  \* 'vendor'
      <<"v","e","n","d","o","r"," ","n","a","m","e">>,  \* 'vendor name'
      <<"s","u","p","p","l","i","e","r">>,  \* 'supplier'
      <<"s","u","p","p","l","i","e","r"," ","n","a","m","e">>,  \* 'supplier name'
      <<"c","o","m","p","a","n","y">>,  \* 'company'
      <<"f","r","o","m">>,  \* 'from'
      <<"b","i","l","l"," ","f","r","o","m">>,  \* 'bill from'
      <<"s","e","l","l","e","r">>,  \* 'seller'
      <<"m","e","r","c","h","a","n","t">>,  \* 'merchant'
      <<"b","i","l","l","e","d"," ","b","y">>,  \* 'billed by'
      <<"i","n","v","o","i","c","e"," ","f","r","o","m">>,  \* 'invoice from'
      <<"v","e","n","d","o","r"," ","c","o","m","p","a","n","y">>,  \* 'vendor company'
      <<"s","u","p","p","l","i","e","r"," ","c","o","m","p","a","n","y">>  \* 'supplier company'
    >>,
    fieldType |-> "text",
    transform |-> "none" ],
  [ targetField |-> S_supplier_invoice_id_by_invcg_party,
    sourceVariations |-> <<
      <<"i","n","v","o","i","c","e"," ","n","u","m","b","e","r">>,  \* 'invoice number'
      <<"i","n","v","o","i","c","e"," ","#">>,  \* 'invoice #'
      <<"i","n","v","o","i","c","e"," ","n","o">>,  \* 'invoice no'
      <<"i","n","v","o","i","c","e"," ","i","d">>,  \* 'invoice id'
      <<"d","o","c","u","m","e","n","t"," ","n","u","m","b","e","r">>,  \* 'document number'
      <<"d","o","c","u","m","e","n","t"," ","#">>,  \* 'document #'
      <<"d","o","c"," ","n","u","m","b","e","r">>,  \* 'doc number'
      <<"b","i","l","l"," ","n","u","m","b","e","r">>,  \* 'bill number'
      <<"r","e","f","e","r","e","n","c","e"," ","n","u","m","b","e","r">>,  \* 'reference number'
      <<"r","e","f","e","r","e","n","c","e"," ","#">>,  \* 'reference #'
      <<"i","n","v"," ","#">>,  \* 'inv #'
      <<"i","n","v"," ","n","u","m","b","e","r">>,  \* 'inv number'
      <<"i","n","v","o","i","c","e"," ","r","e","f">>,  \* 'invoice ref'
      <<"b","i","l","l"," ","#">>  \* 'bill #'
    >>,
    fieldType |-> "text",
    transform |-> "none" ],
  [ targetField |-> S_document_date,
    sourceVariations |-> <<
      <<"i","n","v","o","i","c","e"," ","d","a","t","e">>,  \* 'invoice date'
      <<"d","a","t","e">>,  \* 'date'
      <<"i","s","s","u","e"," ","d","a","t","e">>,  \* 'issue date'
      <<"d","o","c","u","m","e","n","t"," ","d","a","t","e">>,  \* 'document date'
      <<"b","i","l","l"," ","d","a","t","e">>,  \* 'bill date'
      <<"c","r","e","a","t","e","d"," ","d","a","t","e">>,  \* 'created date'
      <<"d","a","t","e","d">>,  \* 'dated'
      <<"i","n","v","o","i","c","e"," ","i","s","s","u","e","d">>,  \* 'invoice issued'
      <<"d","a","t","e"," ","o","f"," ","i","n","v","o","i","c","e">>,  \* 'date of invoice'
      <<"b","i","l","l","i","n","g"," ","d","a","t","e">>  \* 'billing date'
    >>,
    fieldType |-> "date",
    transform |-> "parseDate" ],
  [ targetField |-> S_posting_date,
    sourceVariations |-> <<
      <<"p","o","s","t","i","n","g"," ","d","a","t","e">>,  \* 'posting date'
      <<"p","o","s","t"," ","d","a","t","e">>,  \* 'post date'
      <<"r","e","c","e","i","v","e","d"," ","d","a","t","e">>,  \* 'received date'
      <<"e","n","t","r","y"," ","d","a","t","e">>,  \* 'entry date'
      <<"a","c","c","o","u","n","t","i","n","g"," ","d","a","t","e">>,  \* 'accounting date'
      <<"b","o","o","k"," ","d","a","t","e">>  \* 'book date'
    >>,
    fieldType |-> "date",
    transform |-> "parseDate" ],
  [ targetField |-> S_invoice_gross_amount,
    sourceVariations |-> <<
      <<"t","o","t","a","l">>,  \* 'total'
      <<"t","o","t","a","l"," ","a","m","o","u","n","t">>,  \* 'total amount'
      <<"g","r","a","n","d"," ","t","o","t","a","l">>,  \* 'grand total'
      <<"a","m","o","u","n","t"," ","d","u","e">>,  \* 'amount due'
      <<"t","o","t","a","l"," ","d","u","e">>,  \* 'total due'
      <<"b","a","l","a","n","c","e"," ","d","u","e">>,  \* 'balance due'
      <<"i","n","v","o","i","c","e"," ","t","o","t","a","l">>,  \* 'invoice total'
      <<"g","r","o","s","s"," ","a","m","o","u","n","t">>,  \* 'gross amount'
      <<"t","o","t","a","l"," ","p","a","y","a","b","l","e">>,  \* 'total payable'
      <<"a","m","o","u","n","t"," ","p","a","y","a","b","l","e">>,  \* 'amount payable'
      <<"f","i","n","a","l"," ","a","m","o","u","n","t">>,  \* 'final amount'
      <<"n","e","t"," ","p","a","y","a","b","l","e">>,  \* 'net payable'
      <<"p","a","y","m","e","n","t"," ","d","u","e">>,  \* 'payment due'
      <<"t","o","t","a","l"," ","i","n","v","o","i","c","e"," ","a","m","o","u","n","t">>  \* 'total invoice amount'
    >>,
    fieldType |-> "number",
    transform |-> "parseAmount" ],
  [ targetField |-> S_supplier_invoice_item_amount,
    sourceVariations |-> <<
      <<"s","u","b","t","o","t","a","l">>,  \* 'subtotal'
      <<"s","u","b"," ","t","o","t","a","l">>,  \* 'sub total'
      <<"n","e","t"," ","a","m","o","u","n","t">>,  \* 'net amount'
      <<"n","e","t"," ","t","o","t","a","l">>,  \* 'net total'
      <<"p","r","e","-","t","a","x"," ","a","m","o","u","n","t">>,  \* 'pre-tax amount'
      <<"a","m","o","u","n","t"," ","b","e","f","o","r","e"," ","t","a","x">>,  \* 'amount before tax'
      <<"g","o","o","d","s"," ","t","o","t","a","l">>,  \* 'goods total'
      <<"s","e","r","v","i","c","e","s"," ","t","o","t","a","l">>,  \* 'services total'
      <<"l","i","n","e"," ","i","t","e","m","s"," ","t","o","t","a","l">>,  \* 'line items total'
      <<"i","t","e","m","s"," ","t","o","t","a","l">>  \* 'items total'
    >>,
    fieldType |-> "number",
    transform |-> "parseAmount" ],
  [ targetField |-> S_supplier_invoice_item_text,
    sourceVariations |-> <<
      <<"d","e","s","c","r","i","p","t","i","o","n">>,  \* 'description'
      <<"l","i","n","e"," ","i","t","e","m","s">>,  \* 'line items'
      <<"i","t","e","m","s">>,  \* 'items'
      <<"g","o","o","d","s","/","s","e","r","v","i","c","e","s">>,  \* 'goods/services'
      <<"p","r","o","d","u","c","t"," ","d","e","s","c","r","i","p","t","i","o","n">>,  \* 'product description'
      <<"s","e","r","v","i","c","e"," ","d","e","s","c","r","i","p","t","i","o","n">>,  \* 'service description'
      <<"d","e","t","a","i","l","s">>,  \* 'details'
      <<"i","t","e","m"," ","d","e","s","c","r","i","p","t","i","o","n">>,  \* 'item description'
      <<"b","i","l","l","i","n","g"," ","i","t","e","m","s">>  \* 'billing items'
    >>,
    fieldType |-> "text",
    transform |-> "none" ],
  [ targetField |-> S_document_currency,
    sourceVariations |-> <<
      <<"c","u","r","r","e","n","c","y">>,  \* 'currency'
      <<"c","c","y">>,  \* 'ccy'
      <<"c","u","r","r">>,  \* 'curr'
      <<"c","u","r","r","e","n","c","y"," ","c","o","d","e">>,  \* 'currency code'
      <<"i","n","v","o","i","c","e"," ","c","u","r","r","e","n","c","y">>,  \* 'invoice currency'
      <<"p","a","y","m","e","n","t"," ","c","u","r","r","e","n","c","y">>,  \* 'payment currency'
      <<"d","e","n","o","m","i","n","a","t","i","o","n">>  \* 'denomination'
    >>,
    fieldType |-> "currency",
    transform |-> "none" ],
  [ targetField |-> S_tax_code,
    sourceVariations |-> <<
      <<"t","a","x">>,  \* 'tax'
      <<"t","a","x"," ","r","a","t","e">>,  \* 'tax rate'
      <<"t","a","x"," ","%">>,  \* 'tax %'
      <<"v","a","t">>,  \* 'vat'
      <<"v","a","t"," ","r","a","t","e">>,  \* 'vat rate'
      <<"s","a","l","e","s"," ","t","a","x">>,  \* 'sales tax'
      <<"t","a","x"," ","p","e","r","c","e","n","t","a","g","e">>,  \* 'tax percentage'
      <<"g","s","t">>,  \* 'gst'
      <<"t","a","x"," ","c","o","d","e">>  \* 'tax code'
    >>,
    fieldType |-> "text",
    transform |-> "none" ],
  [ targetField |-> S_assignment_reference,
    sourceVariations |-> <<
      <<"r","e","f","e","r","e","n","c","e">>,  \* 'reference'
      <<"r","e","f">>,  \* 'ref'
      <<"p","o"," ","n","u","m","b","e","r">>,  \* 'po number'
      <<"p","u","r","c","h","a","s","e"," ","o","r","d","e","r">>,  \* 'purchase order'
      <<"p","o"," ","#">>,  \* 'po #'
      <<"o","r","d","e","r"," ","n","u","m","b","e","r">>,  \* 'order number'
      <<"o","r","d","e","r"," ","#">>,  \* 'order #'
      <<"c","o","n","t","r","a","c","t"," ","#">>,  \* 'contract #'
      <<"c","o","n","t","r","a","c","t"," ","n","u","m","b","e","r">>,  \* 'contract number'
      <<"p","r","o","j","e","c","t"," ","n","u","m","b","e","r">>,  \* 'project number'
      <<"p","r","o","j","e","c","t"," ","#">>,  \* 'project #'
      <<"c","u","s","t","o","m","e","r"," ","r","e","f","e","r","e","n","c","e">>  \* 'customer reference'
    >>,
    fieldType |-> "text",
    transform |-> "none" ],
  [ targetField |-> S_accounting_document_header_text,
    sourceVariations |-> <<
      <<"m","e","m","o">>,  \* 'memo'
      <<"n","o","t","e","s">>,  \* 'notes'
      <<"c","o","m","m","e","n","t","s">>,  \* 'comments'
      <<"h","e","a","d","e","r"," ","t","e","x","t">>,  \* 'header text'
      <<"d","e","s","c","r","i","p","t","i","o","n">>,  \* 'description'
      <<"i","n","v","o","i","c","e"," ","d","e","s","c","r","i","p","t","i","o","n">>,  \* 'invoice description'
      <<"r","e","m","a","r","k","s">>  \* 'remarks'
    >>,
    fieldType |-> "text",
    transform |-> "none" ]
>>

NoMapping == 0

\* faulty variant of variationMatches: only the key may contain the variation
variationMatchesKeyContains(mapping, normalizedKey) ==
  \E i \in 1..Len(mapping.sourceVariations) :
     includes(normalizedKey, mapping.sourceVariations[i])

\* mapping.sourceVariations.some(v => key.includes(v) || v.includes(key))
variationMatches(mapping, normalizedKey) ==
  \E i \in 1..Len(mapping.sourceVariations) :
     \/ includes(normalizedKey, mapping.sourceVariations[i])
     \/ includes(mapping.sourceVariations[i], normalizedKey)

firstOf(hits) == IF hits = {} THEN NoMapping ELSE SetMin(hits)

\* FIELD_MAPPINGS.find(...) from entry i on: the index of the first entry
\* with a matching variation, NoMapping for undefined
RECURSIVE findFrom(_, _)
findFrom(i, normalizedKey) ==
  IF i > Len(FIELD_MAPPINGS) THEN NoMapping
  ELSE IF variationMatches(FIELD_MAPPINGS[i], normalizedKey) THEN i
  ELSE findFrom(i + 1, normalizedKey)

findNormalized(normalizedKey) == findFrom(1, normalizedKey)

\* findFieldMapping
findFieldMapping(extractedKey) == findNormalized(trim(toLowerCase(extractedKey)))

\* mapping.transform ? mapping.transform(value) : value
transformValue(mapping, value) ==
  CASE mapping.transform = "parseDate" -> parseDate(value)
    [] mapping.transform = "parseAmount" -> parseAmount(value)
    [] OTHER -> value

TargetFields == {FIELD_MAPPINGS[i].targetField : i \in 1..Len(FIELD_MAPPINGS)}

HIGH_CONFIDENCE == 950

\* applyFieldMappings, before the loop: every target field null
InitialMappings ==
  [ mapped |-> [f \in TargetFields |-> JNull],
    unmapped |-> <<>>,
    mappingDetails |-> <<>> ]

\* faulty variant of fillSlot: the slot is filled and no detail is recorded
fillSlotUnrecorded(acc, key, targetField, transformedValue) ==
  [ acc EXCEPT !.mapped[targetField] = transformedValue ]

\* mapped[targetField] = transformedValue; mappingDetails.push({...})
fillSlot(acc, key, targetField, transformedValue) ==
  [ acc EXCEPT
      !.mapped[targetField] = transformedValue,
      !.mappingDetails = Append(@,
         [ sourceKey |-> key,
           targetField |-> targetField,
           value |-> transformedValue,
           confidence |-> HIGH_CONFIDENCE ]) ]

\* faulty variant of mapWith: no first-match-wins test, a later key overwrites
mapWithLastWins(acc, entry, m) ==
  IF m # NoMapping
  THEN fillSlot(acc, entry.key, FIELD_MAPPINGS[m].targetField,
                transformValue(FIELD_MAPPINGS[m], entry.value))
  ELSE [ acc EXCEPT !.unmapped = Append(@, entry) ]

\* faulty variant of mapWith: a pair whose key resolves to no field is dropped
mapWithUnmappedDropped(acc, entry, m) ==
  IF m # NoMapping
  THEN IF acc.mapped[FIELD_MAPPINGS[m].targetField] = JNull
       THEN fillSlot(acc, entry.key, FIELD_MAPPINGS[m].targetField,
                     transformValue(FIELD_MAPPINGS[m], entry.value))
       ELSE acc
  ELSE acc

\* the body of the loop, given the mapping m found for the entry's key
mapWith(acc, entry, m) ==
  IF m # NoMapping
  THEN IF acc.mapped[FIELD_MAPPINGS[m].targetField] = JNull
       THEN fillSlot(acc, entry.key, FIELD_MAPPINGS[m].targetField,
                     transformValue(FIELD_MAPPINGS[m], entry.value))
       ELSE acc
  ELSE [ acc EXCEPT !.unmapped = Append(@, entry) ]

\* applyFieldMappings, the body of the loop for one entry [key, value]
mapEntry(acc, entry) == mapWith(acc, entry, findFieldMapping(entry.key))

\* applyFieldMappings: the loop over Object.entries(extractedData)
RECURSIVE applyFieldMappingsFrom(_, _)
applyFieldMappingsFrom(acc, entries) ==
  IF entries = <<>> THEN acc
  ELSE applyFieldMappingsFrom(mapEntry(acc, Head(entries)), Tail(entries))

applyFieldMappings(data) == applyFieldMappingsFrom(InitialMappings, data)

\* ------------------------------------------------------------------------
\* Inputs: raw keys and values as the OCR source yields them (non-empty,
\* trimmed strings)
\* ------------------------------------------------------------------------
K_InvoiceNumber == <<"I","n","v","o","i","c","e"," ","N","u","m","b","e","r">>  \* 'Invoice Number'
K_InvoiceDate == <<"I","n","v","o","i","c","e"," ","D","a","t","e">>  \* 'Invoice Date'
K_DueDate == <<"D","u","e"," ","D","a","t","e">>  \* 'Due Date'
K_Total == <<"T","o","t","a","l">>  \* 'Total'
K_Subtotal == <<"S","u","b","t","o","t","a","l">>  \* 'Subtotal'
K_Vendor == <<"V","e","n","d","o","r">>  \* 'Vendor'
K_Page == <<"P","a","g","e">>  \* 'Page'
V_INV100 == <<"I","N","V","-","1","0","0">>  \* 'INV-100'
V_Jan15US == <<"0","1","/","1","5","/","2","0","2","4">>  \* '01/15/2024'
V_Jan15ISO == <<"2","0","2","4","-","0","1","-","1","5">>  \* '2024-01-15'
V_Feb01ISO == <<"2","0","2","4","-","0","2","-","0","1">>  \* '2024-02-01'
V_Feb14US == <<"0","2","/","1","4","/","2","0","2","4">>  \* '02/14/2024'
V_NA == <<"N","/","A">>  \* 'N/A'
V_Amount1234 == <<"$","1",",","2","3","4",".","5","6">>  \* '$1,234.56'
V_Amount100 == <<"1","0","0",".","0","0">>  \* '100.00'
V_ABCCo == <<"A","B","C"," ","C","o">>  \* 'ABC Co'
V_ABCCompany == <<"A","B","C"," ","C","o","m","p","a","n","y">>  \* 'ABC Company'
V_Acme == <<"A","c","m","e"," ","L","t","d">>  \* 'Acme Ltd'
V_One == <<"1">>  \* '1'
V_Net30 == <<"N","e","t"," ","3","0">>  \* 'Net 30'

Entry(k, v) == [key |-> k, value |-> JStr(v)]

\* the most entries an input object holds
MaxPairs == 3

\* every synonym of every dictionary entry
AllVariations ==
  UNION {{FIELD_MAPPINGS[i].sourceVariations[j] :
            j \in 1..Len(FIELD_MAPPINGS[i].sourceVariations)} :
         i \in 1..Len(FIELD_MAPPINGS)}

\* a synonym as a label may be printed: as is, in capitals, with a capital
\* initial, surrounded by white space
KeyVariants(v) ==
  { v, toUpperCase(v), <<upperChar(Head(v))>> \o Tail(v),
    <<" ">> \o v \o <<" ", " ">>, <<"\t">> \o toUpperCase(v) }

\* one-entry inputs: each synonym in each variant
SynonymInputs ==
  { <<Entry(k, val)>> :
      k \in UNION {KeyVariants(v) : v \in AllVariations},
      val \in {V_Jan15US} }

SampleEntries ==
  { Entry(K_InvoiceNumber, V_INV100),
    Entry(K_InvoiceDate, V_Jan15US), Entry(K_DueDate, V_Feb14US),
    Entry(K_DueDate, V_NA),
    Entry(K_Total, V_Amount1234), Entry(K_Total, V_NA),
    Entry(K_Subtotal, V_Amount100),
    Entry(K_Vendor, V_ABCCo), Entry(K_Page, V_One) }

distinctKeys(entries) ==
  \A i, j \in 1..Len(entries) : i # j => entries[i].key # entries[j].key

\* objects of up to n entries drawn from S, keys distinct
Objects(S, n) ==
  UNION {{e \in [1..k -> S] : distinctKeys(e)} : k \in 0..n}

\* ------------------------------------------------------------------------
\* SpecMap: one call of applyFieldMappings, entry by entry
\* ------------------------------------------------------------------------
NoInput == [t |-> "none"]
NoResult == [t |-> "none"]

InitMap ==
  /\ extractedData \in SynonymInputs \cup Objects(SampleEntries, MaxPairs)
  /\ pc = "mapping"
  /\ idx = 0
  /\ fm = InitialMappings
  /\ textractResult = NoInput
  /\ openaiResult = NoInput
  /\ result = NoResult
  /\ idle

\* the loop visits entry e, whose key resolves to mapping m
visit(e, m) ==
  /\ idx' = idx + 1
  /\ fm' = mapWith(fm, e, m)
  /\ UNCHANGED <<pc, extractedData, textractResult, openaiResult, result,
               call, history, invocations, platform>>

slotIsNull(m) == fm.mapped[FIELD_MAPPINGS[m].targetField] = JNull

mapPairAs(e, m) == m # NoMapping /\ slotIsNull(m) /\ visit(e, m)
skipPairAs(e, m) == m # NoMapping /\ ~slotIsNull(m) /\ visit(e, m)
unmappedPairAs(e, m) == m = NoMapping /\ visit(e, m)

\* the key resolves to a field whose slot is still null
MapPair ==
  /\ pc = "mapping"
  /\ idx < Len(extractedData)
  /\ mapPairAs(extractedData[idx + 1], findFieldMapping(extractedData[idx + 1].key))

\* the key resolves to a field whose slot is taken
SkipPair ==
  /\ pc = "mapping"
  /\ idx < Len(extractedData)
  /\ skipPairAs(extractedData[idx + 1], findFieldMapping(extractedData[idx + 1].key))

\* the key resolves to no field
UnmappedPair ==
  /\ pc = "mapping"
  /\ idx < Len(extractedData)
  /\ unmappedPairAs(extractedData[idx + 1], findFieldMapping(extractedData[idx + 1].key))

ReturnMappings ==
  /\ pc = "mapping"
  /\ idx = Len(extractedData)
  /\ pc' = "returned"
  /\ UNCHANGED <<extractedData, idx, fm, textractResult, openaiResult, result,
               call, history, invocations, platform>>

NextMap == MapPair \/ SkipPair \/ UnmappedPair \/ ReturnMappings

SpecMap == InitMap /\ [][NextMap]_vars

\* ------------------------------------------------------------------------
\* services/fusion-engine.ts
\* ------------------------------------------------------------------------
\* an object used as a dictionary, and an array
JMap(entries) == [t |-> "map", entries |-> entries]
JArray(items) == [t |-> "array", items |-> items]

\* an exception leaving a function
Throw(e) == [t |-> "throw", error |-> e]
isThrow(v) == "error" \in DOMAIN v

\* obj[key], obj given as its entries
Lookup(entries, key) ==
  IF \E i \in 1..Len(entries) : entries[i].key = key
  THEN entries[CHOOSE i \in 1..Len(entries) : entries[i].key = key].value
  ELSE JUndefined

objectKeys(entries) == {entries[i].key : i \in 1..Len(entries)}

abs(n) == IF n < 0 THEN 0 - n ELSE n

\* cross-checked field names, as character sequences
S_invoice_number ==
  <<"i","n","v","o","i","c","e","_","n","u","m","b","e","r">>
S_invoice_date ==
  <<"i","n","v","o","i","c","e","_","d","a","t","e">>
S_due_date ==
  <<"d","u","e","_","d","a","t","e">>
S_vendor_name ==
  <<"v","e","n","d","o","r","_","n","a","m","e">>
S_total_amount ==
  <<"t","o","t","a","l","_","a","m","o","u","n","t">>
S_subtotal ==
  <<"s","u","b","t","o","t","a","l">>
S_tax_amount ==
  <<"t","a","x","_","a","m","o","u","n","t">>
S_currency ==
  <<"c","u","r","r","e","n","c","y">>

\* extractFieldFromTextract: the alias table
textractAliases(fieldName) ==
  CASE fieldName = S_invoice_number ->
       << <<"I","n","v","o","i","c","e"," ","N","u","m","b","e","r">>,
          <<"I","n","v","o","i","c","e"," ","#">>,
          <<"N","u","m","b","e","r">>,
          <<"D","o","c"," ","N","u","m","b","e","r">> >>
    [] fieldName = S_invoice_date ->
       << <<"I","n","v","o","i","c","e"," ","D","a","t","e">>,
          <<"D","a","t","e">>,
          <<"I","s","s","u","e"," ","D","a","t","e">> >>
    [] fieldName = S_due_date ->
       << <<"D","u","e"," ","D","a","t","e">>,
          <<"P","a","y","m","e","n","t"," ","D","u","e">> >>
    [] fieldName = S_vendor_name ->
       << <<"V","e","n","d","o","r">>,
          <<"C","o","m","p","a","n","y">>,
          <<"F","r","o","m">>,
          <<"S","u","p","p","l","i","e","r">> >>
    [] fieldName = S_total_amount ->
       << <<"T","o","t","a","l">>,
          <<"A","m","o","u","n","t"," ","D","u","e">>,
          <<"G","r","a","n","d"," ","T","o","t","a","l">> >>
    [] fieldName = S_subtotal ->
       << <<"S","u","b","t","o","t","a","l">>,
          <<"S","u","b"," ","T","o","t","a","l">> >>
    [] fieldName = S_tax_amount ->
       << <<"T","a","x">>,
          <<"S","a","l","e","s"," ","T","a","x">>,
          <<"V","A","T">> >>
    [] fieldName = S_currency ->
       << <<"C","u","r","r","e","n","c","y">>,
          <<"C","C","Y">> >>
    [] OTHER -> <<fieldName>>

commonFields ==
  << S_invoice_number, S_invoice_date, S_due_date, S_vendor_name,
     S_total_amount, S_subtotal, S_tax_amount, S_currency >>

\* the pairs of kv whose lower-cased key contains the lower-cased alias
pairsFor(kv, alias) ==
  {e \in 1..Len(kv) : includes(toLowerCase(kv[e].key), toLowerCase(alias))}

firstPairValue(kv, hits) == IF hits = {} THEN JNull ELSE kv[SetMin(hits)].value

\* the first alias some pair of kv matches, 0 if none
firstAlias(kv, possibleKeys) ==
  firstOf({a \in 1..Len(possibleKeys) : pairsFor(kv, possibleKeys[a]) # {}})

valueForAlias(kv, possibleKeys, a) ==
  IF a = 0 THEN JNull ELSE firstPairValue(kv, pairsFor(kv, possibleKeys[a]))

\* extractFieldFromTextract: for each alias in turn, the value of the first
\* pair whose lower-cased key contains the lower-cased alias; null if none
extractFieldFromTextract(fieldName, tr) ==
  valueForAlias(tr.keyValuePairs.entries, textractAliases(fieldName),
                firstAlias(tr.keyValuePairs.entries, textractAliases(fieldName)))

\* the names extractFieldFromOpenAI tries, in order
openaiNames(fieldName) ==
  << fieldName,
     replaceFirst(fieldName, "_", <<" ">>),
     replaceFirst(fieldName, "_", <<>>),
     toLowerCase(fieldName),
     toUpperCase(fieldName) >>

firstTruthy(entries, tries, found) ==
  IF found = {} THEN JNull ELSE Lookup(entries, tries[SetMin(found)])

lookupFirst(entries, tries) ==
  firstTruthy(entries, tries,
              {i \in 1..Len(tries) : Truthy(Lookup(entries, tries[i]))})

\* extractFieldFromOpenAI: the first truthy of extracted[fieldName] and of
\* extracted[v] for the four variations of the name; null if none
extractFieldFromOpenAI(fieldName, or) ==
  IF ~Truthy(or.extracted_data) THEN JNull
  ELSE lookupFirst(or.extracted_data.entries, openaiNames(fieldName))

nanToUndefined(normalized) ==
  IF normalized.t = "NaN" THEN JUndefined ELSE normalized

\* normalizeAmount: undefined for a falsy argument; amount.replace is a
\* TypeError on a truthy value that is no string; else strip all but digits,
\* '.' and ',', drop the first comma, parseFloat; undefined for NaN
normalizeAmount(amount) ==
  IF ~Truthy(amount) THEN JUndefined
  ELSE IF amount.t # "string" THEN Throw("TypeError")
  ELSE nanToUndefined(parseFloat(removeFirst(keepChars(amount.s, {".", ","}), ",")))

sameDay(d1, d2) ==
  IF ~d1.valid \/ ~d2.valid THEN Throw("RangeError") ELSE JBool(d1.iso = d2.iso)

\* datesMatch: toISOString throws a RangeError on an Invalid Date
datesMatch(date1, date2) == sameDay(DateOf(date1), DateOf(date2))

\* difference / average < 0.01, that is 200 * difference < sum
withinOnePercent(num1, num2) ==
  IF isThrow(num1) THEN num1
  ELSE IF isThrow(num2) THEN num2
  ELSE IF ~Truthy(num1) \/ ~Truthy(num2) THEN JBool(FALSE)
  ELSE JBool(200 * abs(num1.n - num2.n) < num1.n + num2.n)

\* amountsMatch
amountsMatch(amount1, amount2) ==
  withinOnePercent(normalizeAmount(amount1), normalizeAmount(amount2))

sameOrContained(clean1, clean2) ==
  JBool(clean1 = clean2 \/ includes(clean1, clean2) \/ includes(clean2, clean1))

\* stringsMatch: toLowerCase is a TypeError on a value that is no string
stringsMatch(str1, str2) ==
  IF str1.t # "string" \/ str2.t # "string" THEN Throw("TypeError")
  ELSE sameOrContained(trim(toLowerCase(str1.s)), trim(toLowerCase(str2.s)))

fieldsMatch(value1, value2, fieldType) ==
  IF ~Truthy(value1) \/ ~Truthy(value2) THEN JBool(FALSE)
  ELSE CASE fieldType \in {S_invoice_date, S_due_date} -> datesMatch(value1, value2)
         [] fieldType \in {S_total_amount, S_subtotal, S_tax_amount} ->
              amountsMatch(value1, value2)
         [] OTHER -> stringsMatch(value1, value2)

DEFAULT_OPENAI_CONFIDENCE == 800
CONSENSUS_CONFIDENCE == 950

\* getFieldConfidence: the document's confidence; for the OpenAI result
\* (no textract_raw property) confidence || 0.8
getFieldConfidence(fieldName, res) ==
  IF "textract_raw" \in DOMAIN res THEN res.confidence
  ELSE IF res.confidence # 0 THEN res.confidence ELSE DEFAULT_OPENAI_CONFIDENCE

\* confidence * 0.8, in thousandths
penalised(confidence) == (confidence * 8) \div 10

\* performCrossValidation, before the loop
InitialCrossValidation ==
  [ t |-> "crossValidation",
    validatedFields |-> <<>>,
    conflictingFields |-> <<>>,
    agreements |-> 0,
    totalComparisons |-> 0 ]

\* an entry of validatedFields
validated(textractValue, openaiValue, final, conf, src) ==
  [ textractValue |-> textractValue,
    openaiValue |-> openaiValue,
    finalValue |-> final,
    confidence |-> conf,
    source |-> src ]

\* the conflict branch: the more confident source, at 0.8 of its confidence
moreConfident(textractValue, openaiValue, textractConfidence, openaiConfidence) ==
  IF textractConfidence > openaiConfidence
  THEN validated(textractValue, openaiValue, textractValue,
                 penalised(textractConfidence), "textract")
  ELSE validated(textractValue, openaiValue, openaiValue,
                 penalised(openaiConfidence), "openai")

\* faulty variant of recordComparison: on a match the final value is source B's
recordComparisonPreferB(acc, fieldName, textractValue, openaiValue, isMatch, tr, or) ==
  IF isThrow(isMatch) THEN isMatch
  ELSE IF isMatch.b
  THEN [ acc EXCEPT
           !.totalComparisons = @ + 1,
           !.agreements = @ + 1,
           !.validatedFields =
              (fieldName :> validated(textractValue, openaiValue,
                                      OrElse(openaiValue, textractValue),
                                      CONSENSUS_CONFIDENCE, "consensus")) @@ @ ]
  ELSE [ acc EXCEPT
           !.totalComparisons = @ + 1,
           !.conflictingFields = Append(@, fieldName),
           !.validatedFields =
              (fieldName :> moreConfident(textractValue, openaiValue,
                                          getFieldConfidence(fieldName, tr),
                                          getFieldConfidence(fieldName, or))) @@ @ ]

\* the field was compared: isMatch is the result of fieldsMatch
recordComparison(acc, fieldName, textractValue, openaiValue, isMatch, tr, or) ==
  IF isThrow(isMatch) THEN isMatch
  ELSE IF isMatch.b
  THEN [ acc EXCEPT
           !.totalComparisons = @ + 1,
           !.agreements = @ + 1,
           !.validatedFields =
              (fieldName :> validated(textractValue, openaiValue,
                                      OrElse(textractValue, openaiValue),
                                      CONSENSUS_CONFIDENCE, "consensus")) @@ @ ]
  ELSE [ acc EXCEPT
           !.totalComparisons = @ + 1,
           !.conflictingFields = Append(@, fieldName),
           !.validatedFields =
              (fieldName :> moreConfident(textractValue, openaiValue,
                                          getFieldConfidence(fieldName, tr),
                                          getFieldConfidence(fieldName, or))) @@ @ ]

\* if (textractValue || openaiValue) { ... }
compareValues(acc, fieldName, textractValue, openaiValue, tr, or) ==
  IF ~(Truthy(textractValue) \/ Truthy(openaiValue)) THEN acc
  ELSE recordComparison(acc, fieldName, textractValue, openaiValue,
                        fieldsMatch(textractValue, openaiValue, fieldName), tr, or)

\* performCrossValidation, the body of the loop for one field name
crossValidateField(acc, fieldName, tr, or) ==
  compareValues(acc, fieldName,
                extractFieldFromTextract(fieldName, tr),
                extractFieldFromOpenAI(fieldName, or), tr, or)

RECURSIVE crossValidateFrom(_, _, _, _)
crossValidateFrom(acc, fields, tr, or) ==
  IF fields = <<>> \/ isThrow(acc) THEN acc
  ELSE crossValidateFrom(crossValidateField(acc, Head(fields), tr, or),
                         Tail(fields), tr, or)

\* a fraction num / den
Ratio(n, d) == [num |-> n, den |-> d]

\* faulty variant of scored: the agreements over all cross-checked fields, compared
\* or not
scoredOverAllFields(acc) ==
  IF isThrow(acc) THEN acc
  ELSE [ agreementScore |-> Ratio(acc.agreements, Len(commonFields)),
         conflictingFields |-> acc.conflictingFields,
         validatedFields |-> acc.validatedFields ]

\* agreements / totalComparisons, 0.5 when nothing was compared
scored(acc) ==
  IF isThrow(acc) THEN acc
  ELSE [ agreementScore |->
           IF acc.totalComparisons > 0
           THEN Ratio(acc.agreements, acc.totalComparisons)
           ELSE Ratio(1, 2),
         conflictingFields |-> acc.conflictingFields,
         validatedFields |-> acc.validatedFields ]

\* performCrossValidation: the loop over commonFields, then the score
performCrossValidation(tr, or) ==
  scored(crossValidateFrom(InitialCrossValidation, commonFields, tr, or))

smaller(sum, den) == Ratio(IF sum < den THEN sum ELSE den, den)

\* faulty variant of calculateHybridConfidence: the sum is not capped at 1.0
calculateHybridConfidenceUncapped(textractConf, openaiConf, agreementScore) ==
  Ratio((6 * textractConf + 4 * openaiConf) * agreementScore.den
          + 1000 * agreementScore.num,
        10000 * agreementScore.den)

\* faulty variant of calculateHybridConfidence: the agreement lowers the score
calculateHybridConfidencePenalty(textractConf, openaiConf, agreementScore) ==
  smaller((6 * textractConf + 4 * openaiConf) * agreementScore.den
            + 1000 * (agreementScore.den - agreementScore.num),
          10000 * agreementScore.den)

\* calculateHybridConfidence: min(0.6 a + 0.4 b + 0.1 s, 1.0) for a, b in
\* thousandths and s a fraction, as a fraction over 10000 * s.den
calculateHybridConfidence(textractConf, openaiConf, agreementScore) ==
  smaller((6 * textractConf + 4 * openaiConf) * agreementScore.den
            + 1000 * agreementScore.num,
          10000 * agreementScore.den)

\* extractBusinessLogic: accounting_fields is extracted_data itself, {} when
\* extracted_data is absent
extractBusinessLogic(or) ==
  IF Truthy(or.extracted_data)
  THEN [accounting_fields |-> or.extracted_data.entries]
  ELSE [accounting_fields |-> <<>>]

DIRECT_MAPPING_CONFIDENCE == 950
DEFAULT_GUESS_CONFIDENCE == 800

\* faulty variant of mergedField: the guess of source B is preferred
mergedFieldGuessFirst(directValue, guess, openaiValue) ==
  IF NotNullish(openaiValue)
  THEN [ value |-> openaiValue,
         confidence |-> OrElse(GetConfidence(guess), JNum(DEFAULT_GUESS_CONFIDENCE)),
         source |-> "openai" ]
  ELSE IF NotNullish(directValue)
  THEN [ value |-> directValue,
         confidence |-> JNum(DIRECT_MAPPING_CONFIDENCE),
         source |-> "direct-mapping" ]
  ELSE [ value |-> JNull, confidence |-> JNum(0), source |-> "none" ]

\* one merged field: directValue is directMapped[field], guess is
\* openaiFields[field] and openaiValue is guess?.value || guess
mergedField(directValue, guess, openaiValue) ==
  IF NotNullish(directValue)
  THEN [ value |-> directValue,
         confidence |-> JNum(DIRECT_MAPPING_CONFIDENCE),
         source |-> "direct-mapping" ]
  ELSE IF NotNullish(openaiValue)
  THEN [ value |-> openaiValue,
         confidence |-> OrElse(GetConfidence(guess), JNum(DEFAULT_GUESS_CONFIDENCE)),
         source |-> "openai" ]
  ELSE [ value |-> JNull, confidence |-> JNum(0), source |-> "none" ]

guessValue(guess) == OrElse(GetValue(guess), guess)

directValueOf(directMapped, field) ==
  IF field \in DOMAIN directMapped THEN directMapped[field] ELSE JUndefined

\* mergeAccountingFields
mergeAccountingFields(directMapped, openaiFields) ==
  [ field \in DOMAIN directMapped \cup objectKeys(openaiFields) |->
      mergedField(directValueOf(directMapped, field),
                  Lookup(openaiFields, field),
                  guessValue(Lookup(openaiFields, field))) ]

\* enhanceLineItems: each item with its normalizedAmount
enhanceLineItems(textractLineItems) ==
  [ i \in 1..Len(textractLineItems) |->
      [ description |-> textractLineItems[i].description,
        amount |-> textractLineItems[i].amount,
        normalizedAmount |-> normalizeAmount(textractLineItems[i].amount) ] ]

\* faulty variant of mappingTrailOf: sourceValue is the mapped value
mappingTrailOfMapped(kv, mappingDetails) ==
  [ d \in 1..Len(mappingDetails) |->
      [ sourceKey |-> mappingDetails[d].sourceKey,
        sourceValue |-> mappingDetails[d].value,
        targetField |-> mappingDetails[d].targetField,
        mappedValue |-> mappingDetails[d].value,
        confidence |-> mappingDetails[d].confidence,
        method |-> "textract-direct" ] ]

\* mappingTrail: one entry per mapping detail
mappingTrailOf(kv, mappingDetails) ==
  [ d \in 1..Len(mappingDetails) |->
      [ sourceKey |-> mappingDetails[d].sourceKey,
        sourceValue |-> Lookup(kv, mappingDetails[d].sourceKey),
        targetField |-> mappingDetails[d].targetField,
        mappedValue |-> mappingDetails[d].value,
        confidence |-> mappingDetails[d].confidence,
        method |-> "textract-direct" ] ]

\* the merged fields with the final values of the cross-validation copied in
withFinalValues(merged, validatedFields) ==
  [ f \in DOMAIN merged |->
      IF f \in DOMAIN validatedFields
      THEN [ merged[f] EXCEPT !.value = validatedFields[f].finalValue,
                              !.confidence = JNum(validatedFields[f].confidence) ]
      ELSE merged[f] ]

\* faulty variant of assemble: cross-validated values overwrite merged fields
assembleWithFinalValues(tr, or, fieldMappings, crossValidation) ==
  IF isThrow(crossValidation) THEN crossValidation
  ELSE IF tr.lineItems.t # "array" THEN Throw("TypeError")
  ELSE [ t |-> "HybridExtractionResult",
         confidence |->
           calculateHybridConfidence(tr.confidence, or.confidence,
                                     crossValidation.agreementScore),
         keyValuePairs |-> tr.keyValuePairs,
         lineItems |-> tr.lineItems,
         businessLogic |->
           [ accounting_fields |->
               withFinalValues(
                 mergeAccountingFields(fieldMappings.mapped,
                                       extractBusinessLogic(or).accounting_fields),
                 crossValidation.validatedFields) ],
         enhancedLineItems |-> enhanceLineItems(tr.lineItems.items),
         fieldMappings |->
           [ mapped |-> fieldMappings.mapped,
             unmapped |-> fieldMappings.unmapped,
             mappingDetails |-> fieldMappings.mappingDetails,
             mappingTrail |->
               mappingTrailOf(tr.keyValuePairs.entries,
                              fieldMappings.mappingDetails) ],
         crossValidation |-> crossValidation,
         textract_confidence |-> tr.confidence,
         openai_confidence |-> or.confidence ]

\* combine, given the results of applyFieldMappings and performCrossValidation
assemble(tr, or, fieldMappings, crossValidation) ==
  IF isThrow(crossValidation) THEN crossValidation
  ELSE IF tr.lineItems.t # "array" THEN Throw("TypeError")
  ELSE [ t |-> "HybridExtractionResult",
         confidence |->
           calculateHybridConfidence(tr.confidence, or.confidence,
                                     crossValidation.agreementScore),
         keyValuePairs |-> tr.keyValuePairs,
         lineItems |-> tr.lineItems,
         businessLogic |->
           [ accounting_fields |->
               mergeAccountingFields(fieldMappings.mapped,
                                     extractBusinessLogic(or).accounting_fields) ],
         enhancedLineItems |-> enhanceLineItems(tr.lineItems.items),
         fieldMappings |->
           [ mapped |-> fieldMappings.mapped,
             unmapped |-> fieldMappings.unmapped,
             mappingDetails |-> fieldMappings.mappingDetails,
             mappingTrail |->
               mappingTrailOf(tr.keyValuePairs.entries,
                              fieldMappings.mappingDetails) ],
         crossValidation |-> crossValidation,
         textract_confidence |-> tr.confidence,
         openai_confidence |-> or.confidence ]

\* combine: the HybridExtractionResult, or the exception that leaves it.
\* Object.keys(undefined) and undefined.map(...) are TypeErrors.
combine(tr, or) ==
  IF tr.keyValuePairs.t # "map" THEN Throw("TypeError")
  ELSE assemble(tr, or, applyFieldMappings(tr.keyValuePairs.entries),
                performCrossValidation(tr, or))

\* ------------------------------------------------------------------------
\* Spec: one call of FusionEngine.combine
\* ------------------------------------------------------------------------
V_Plain1234 == <<"1","2","3","4",".","5","6">>  \* '1234.56'

\* the most key-value pairs of source A, and the most fields source B guesses
MaxFusionPairs == 1
MaxGuesses == 2

FusionEntries ==
  { Entry(K_InvoiceDate, V_Jan15US), Entry(K_InvoiceDate, V_NA),
    Entry(K_Total, V_Amount1234), Entry(K_Vendor, V_ABCCo) }

LineItem(d, a) == [description |-> JStr(d), amount |-> a]

OneLineItem == JArray(<<LineItem(V_Net30, JStr(V_Amount100))>>)

TextractResult(c, kv, li) ==
  [confidence |-> c, keyValuePairs |-> kv, lineItems |-> li, textract_raw |-> JNull]

\* source A as TextractService builds it, and three results with
\* keyValuePairs or lineItems empty or missing
TextractInputs ==
  { TextractResult(c, JMap(o), OneLineItem) :
      c \in {500, 950}, o \in Objects(FusionEntries, MaxFusionPairs) }
  \cup { TextractResult(950, JMap(<<Entry(K_InvoiceDate, V_Jan15US),
                                      Entry(K_Total, V_Amount1234)>>), OneLineItem),
         TextractResult(950, JUndefined, OneLineItem),
         TextractResult(950, JMap(<<>>), JUndefined),
         TextractResult(950, JMap(<<>>), JArray(<<>>)) }

Absent == [t |-> "absent"]

\* what source B may hold under a cross-checked field name ...
InvoiceDateGuesses == {JStr(V_Jan15ISO), JStr(V_Feb01ISO)}
TotalAmountGuesses == {JStr(V_Plain1234), JNum(1234560)}
VendorNameGuesses ==
  {JStr(V_ABCCompany), JStr(V_Acme), JGuess(JStr(V_ABCCompany), JNum(900))}
\* ... and under a canonical field name: { value, confidence } guesses
InvoicingPartyGuesses ==
  { JGuess(JStr(V_ABCCompany), JNum(800)),
    JGuess(JStr(V_ABCCompany), JUndefined),
    JGuess(JStr(V_Acme), JNum(0)),
    JGuess(JNull, JNum(500)),
    JGuess(JNum(0), JNum(900)) }

present(x) == x.value # Absent

\* extracted_data objects: per key one of its guesses or nothing
ExtractedData ==
  { SelectSeq(<< [key |-> S_invoice_date, value |-> a],
                 [key |-> S_total_amount, value |-> b],
                 [key |-> S_vendor_name, value |-> c],
                 [key |-> S_invoicing_party, value |-> d] >>, present) :
      a \in InvoiceDateGuesses \cup {Absent},
      b \in TotalAmountGuesses \cup {Absent},
      c \in VendorNameGuesses \cup {Absent},
      d \in InvoicingPartyGuesses \cup {Absent} }

\* source B as runOpenAIExtraction builds it: extracted_data of at most
\* MaxGuesses keys, or none
OpenAIInputs ==
  { [confidence |-> c, extracted_data |-> x] :
      c \in {0, 800},
      x \in {JUndefined} \cup {JMap(o) : o \in {o \in ExtractedData : Len(o) <= MaxGuesses}} }

Init ==
  /\ textractResult \in TextractInputs
  /\ openaiResult \in OpenAIInputs
  /\ pc = "called"
  /\ result = NoResult
  /\ extractedData = <<>>
  /\ idx = 0
  /\ fm = InitialMappings
  /\ idle

\* the call ends with outcome r at position p
finish(r, p) ==
  /\ result' = r
  /\ pc' = p
  /\ UNCHANGED <<extractedData, idx, fm, textractResult, openaiResult,
               call, history, invocations, platform>>

returns(r) == ~isThrow(r) /\ finish(r, "returned")
raises(r) == isThrow(r) /\ finish(r, "raised")

\* combine runs to its return statement
CombineReturns ==
  /\ pc = "called"
  /\ returns(combine(textractResult, openaiResult))

\* an exception leaves combine
CombineRaises ==
  /\ pc = "called"
  /\ raises(combine(textractResult, openaiResult))

Next == CombineReturns \/ CombineRaises

Spec == Init /\ [][Next]_vars

\* ------------------------------------------------------------------------
\* SpecCalls: one application of fieldsMatch, calculateHybridConfidence,
\* findFieldMapping or combine to arguments drawn from bounded sets
\* ------------------------------------------------------------------------
V_Amount10050 == <<"1","0","0",".","5","0">>  \* '100.50'
V_Amount105 == <<"1","0","5",".","0","0">>  \* '105.00'
V_Amount199 == <<"1","9","9",".","0","0">>  \* '199.00'
V_Amount201 == <<"2","0","1",".","0","0">>  \* '201.00'
V_Zero == <<"0",".","0","0">>  \* '0.00'
V_USD100 == <<"U","S","D"," ","1","0","0">>  \* 'USD 100'
K_Amount == <<"A","m","o","u","n","t">>  \* 'Amount'
K_Tax == <<"T","a","x">>  \* 'Tax'
K_Empty == <<>>  \* ''
K_Blank == <<" ", "\t">>  \* ' \t'

Pending == [t |-> "pending"]
Application(fn, args) == [fn |-> fn, args |-> args, ret |-> Pending]

AmountFields == {S_total_amount, S_subtotal, S_tax_amount}

\* amounts as either source writes them
AmountCandidates ==
  { JStr(V_Amount100), JStr(V_Amount10050), JStr(V_Amount105), JStr(V_Amount199),
    JStr(V_Amount201), JStr(V_Amount1234), JStr(V_Plain1234), JStr(V_USD100),
    JStr(V_Zero), JStr(V_NA) }

FieldsMatchCalls ==
  { Application("fieldsMatch", <<a, b, f>>) :
      a \in AmountCandidates, b \in AmountCandidates, f \in AmountFields }

\* the finest agreement score is a fraction over MaxComparisons
MaxComparisons == 3

Confidences == {0, 250, 500, 800, 950, 1000}
AgreementScores ==
  UNION { {Ratio(n, d) : n \in 0..d} : d \in 1..MaxComparisons }

ConfidenceCalls ==
  { Application("calculateHybridConfidence", <<a, b, s>>) :
      a \in Confidences, b \in Confidences, s \in AgreementScores }

FindCalls ==
  { Application("findFieldMapping", <<k>>) :
      k \in UNION {KeyVariants(v) : v \in AllVariations}
            \cup { K_Empty, K_Blank, K_Amount, K_Tax, K_InvoiceNumber, K_InvoiceDate, K_DueDate,
                   K_Total, K_Subtotal, K_Vendor, K_Page } }

CombineCalls ==
  { Application("combine",
                << TextractResult(c, JMap(o), OneLineItem),
                   [confidence |-> d, extracted_data |-> JMap(x)] >>) :
      c \in {500, 1000}, d \in {800, 1000},
      o \in Objects(FusionEntries, 1),
      x \in { <<>>,
              <<[key |-> S_invoice_date, value |-> JStr(V_Jan15ISO)]>>,
              <<[key |-> S_vendor_name, value |-> JStr(V_Acme)]>> } }
  \cup { Application("combine",
                     << TextractResult(950, JMap(<<Entry(c[1], c[2])>>), OneLineItem),
                        [ confidence |-> 800,
                          extracted_data |->
                            JMap(<<[key |-> c[3], value |-> JStr(c[2])]>>) ] >>) :
            c \in { <<K_Tax, V_Zero, S_tax_amount>>,
                    <<K_Tax, V_Amount100, S_tax_amount>>,
                    <<K_Vendor, V_ABCCo, S_vendor_name>>,
                    <<K_DueDate, V_Feb14US, S_due_date>> } }

InitCalls ==
  /\ \/ call \in FieldsMatchCalls
     \/ call \in ConfidenceCalls
     \/ call \in FindCalls
     \/ call \in CombineCalls
  /\ pc = "applying"
  /\ extractedData = <<>>
  /\ idx = 0
  /\ fm = InitialMappings
  /\ textractResult = NoInput
  /\ openaiResult = NoInput
  /\ result = NoResult
  /\ history = <<>>
  /\ invocations = <<>>
  /\ offline

\* the function returns (or raises) r
applied(r) ==
  /\ call' = [call EXCEPT !.ret = r]
  /\ pc' = "applied"
  /\ UNCHANGED <<extractedData, idx, fm, textractResult, openaiResult, result,
                 history, invocations, platform>>

ApplyFieldsMatch ==
  /\ pc = "applying"
  /\ call.fn = "fieldsMatch"
  /\ applied(fieldsMatch(call.args[1], call.args[2], call.args[3]))

ApplyCalculateHybridConfidence ==
  /\ pc = "applying"
  /\ call.fn = "calculateHybridConfidence"
  /\ applied(calculateHybridConfidence(call.args[1], call.args[2], call.args[3]))

ApplyFindFieldMapping ==
  /\ pc = "applying"
  /\ call.fn = "findFieldMapping"
  /\ applied(findFieldMapping(call.args[1]))

ApplyCombine ==
  /\ pc = "applying"
  /\ call.fn = "combine"
  /\ applied(combine(call.args[1], call.args[2]))

NextCalls ==
  \/ ApplyFieldsMatch
  \/ ApplyCalculateHybridConfidence
  \/ ApplyFindFieldMapping
  \/ ApplyCombine

SpecCalls == InitCalls /\ [][NextCalls]_vars

\* ------------------------------------------------------------------------
\* SpecRepeat: applyFieldMappings called several times in a row
\* ------------------------------------------------------------------------
MaxCalls == 3

RepeatEntries ==
  { Entry(K_Total, V_Amount1234), Entry(K_Subtotal, V_Amount100), Entry(K_Page, V_One) }

RepeatInputs == Objects(RepeatEntries, 2)

InitRepeat ==
  /\ extractedData \in RepeatInputs
  /\ pc = "mapping"
  /\ idx = 0
  /\ fm = InitialMappings
  /\ textractResult = NoInput
  /\ openaiResult = NoInput
  /\ result = NoResult
  /\ idle

\* faulty variant of localsOnEntry: the objects of the previous call are kept
localsKept(left) == left

\* mapped, unmapped and mappingDetails are objects created by each call,
\* whatever an earlier call has left
localsOnEntry(left) == InitialMappings

\* the call has returned and applyFieldMappings is called again
CallAgain ==
  /\ pc = "returned"
  /\ Len(history) + 1 < MaxCalls
  /\ history' = Append(history, [input |-> extractedData, output |-> fm])
  /\ extractedData' \in RepeatInputs
  /\ idx' = 0
  /\ fm' = localsOnEntry(fm)
  /\ pc' = "mapping"
  /\ UNCHANGED <<textractResult, openaiResult, result, call, invocations, platform>>

NextRepeat == MapPair \/ SkipPair \/ UnmappedPair \/ ReturnMappings \/ CallAgain

SpecRepeat == InitRepeat /\ [][NextRepeat]_vars

\* ------------------------------------------------------------------------
\* SpecConcurrent: invocations of combine on one FusionEngine, their steps
\* interleaved.  Each invocation holds its arguments and its locals
\* fieldMappings, crossValidation and result; the engine has no fields.
\* ------------------------------------------------------------------------
MaxInvocations == 2

Document(kv, data) ==
  [ textractResult |-> TextractResult(950, kv, OneLineItem),
    openaiResult |-> [confidence |-> 800, extracted_data |-> JMap(data)] ]

Documents ==
  { Document(JMap(<<Entry(K_Vendor, V_ABCCo)>>),
             <<[key |-> S_vendor_name, value |-> JStr(V_Acme)]>>),
    Document(JMap(<<Entry(K_InvoiceDate, V_Jan15US), Entry(K_Total, V_Amount1234)>>),
             <<[key |-> S_invoice_date, value |-> JStr(V_Jan15ISO)]>>),
    Document(JMap(<<Entry(K_InvoiceDate, V_NA)>>),
             <<[key |-> S_invoice_date, value |-> JStr(V_Jan15ISO)]>>),
    Document(JUndefined, <<>>),
    [ Document(JMap(<<Entry(K_Vendor, V_ABCCo)>>),
               <<[key |-> S_vendor_name, value |-> JStr(V_Acme)]>>)
        EXCEPT !.textractResult.confidence = 500 ] }

NotYet == [t |-> "none"]

\* combine is called on document d
Invocation(d) ==
  [ textractResult |-> d.textractResult,
    openaiResult |-> d.openaiResult,
    given |-> d,
    at |-> "called",
    fieldMappings |-> NotYet,
    crossValidation |-> NotYet,
    result |-> NotYet ]

InitConcurrent ==
  /\ \E n \in 1..MaxInvocations : invocations \in [1..n -> {Invocation(d) : d \in Documents}]
  /\ pc = "concurrent"
  /\ extractedData = <<>>
  /\ idx = 0
  /\ fm = InitialMappings
  /\ textractResult = NoInput
  /\ openaiResult = NoInput
  /\ result = NoResult
  /\ call = NoCall
  /\ history = <<>>
  /\ offline

\* faulty variant of keepLocal: the value is kept in a field of the engine,
\* which every invocation reads
keepInEngine(invs, i, name, value, next) ==
  [j \in DOMAIN invs |->
     IF j = i THEN [invs[j] EXCEPT ![name] = value, !.at = next]
     ELSE [invs[j] EXCEPT ![name] = value]]

\* invocation i keeps value in its local const name and goes on to next
keepLocal(invs, i, name, value, next) ==
  [invs EXCEPT ![i] = [@ EXCEPT ![name] = value, !.at = next]]

\* invocation i ends: it returns r, or the exception r leaves it
ended(invs, i, r) ==
  [invs EXCEPT ![i] = [@ EXCEPT !.result = r,
                                !.at = IF isThrow(r) THEN "raised" ELSE "returned"]]

step(invs) ==
  /\ invocations' = invs
  /\ UNCHANGED <<pc, extractedData, idx, fm, textractResult, openaiResult, result,
                 call, history, platform>>

\* const fieldMappings = applyFieldMappings(textractResult.keyValuePairs);
\* Object.keys(undefined) is a TypeError
ApplyMappings ==
  \E i \in DOMAIN invocations :
    /\ invocations[i].at = "called"
    /\ IF invocations[i].textractResult.keyValuePairs.t # "map"
       THEN step(ended(invocations, i, Throw("TypeError")))
       ELSE step(keepLocal(invocations, i, "fieldMappings",
                           applyFieldMappings(
                             invocations[i].textractResult.keyValuePairs.entries),
                           "mapped"))

\* const crossValidation = this.performCrossValidation(...)
crossValidateAs(i, cv) ==
  IF isThrow(cv) THEN step(ended(invocations, i, cv))
  ELSE step(keepLocal(invocations, i, "crossValidation", cv, "validated"))

CrossValidate ==
  \E i \in DOMAIN invocations :
    /\ invocations[i].at = "mapped"
    /\ crossValidateAs(i, performCrossValidation(invocations[i].textractResult,
                                                 invocations[i].openaiResult))

\* the rest of combine: the result is built from the arguments and the locals
Assemble ==
  \E i \in DOMAIN invocations :
    /\ invocations[i].at = "validated"
    /\ step(ended(invocations, i,
                  assemble(invocations[i].textractResult, invocations[i].openaiResult,
                           invocations[i].fieldMappings,
                           invocations[i].crossValidation)))

NextConcurrent == ApplyMappings \/ CrossValidate \/ Assemble

SpecConcurrent == InitConcurrent /\ [][NextConcurrent]_vars

\* ------------------------------------------------------------------------
\* SpecProcess: one run of processDocument(jobData).  doc is the row of the
\* documents table the job names, writes the log of the updates sent to it,
\* extraction the state of the provider calls; pc is the position in the
\* function and result its return value.
\* ------------------------------------------------------------------------
FileKinds == {"pdf", "image", "other"}

\* jobData: whether the required fields are present and well formed, whether
\* fileUrl passes validateFileUrl, and what filename ends with
Jobs == [valid : BOOLEAN, urlOk : BOOLEAN, kind : FileKinds]

\* what an update of the row does: applied, an error returned in the
\* response, or the call rejects
WriteOutcomes == {"ok", "error", "throws"}

\* status of an assistant run, as runs.retrieve reports it
RunStatuses == {"queued", "in_progress", "completed", "failed", "expired"}

PendingRow == [status |-> "pending", processing_progress |-> 0, extracted_data |-> NoResult]

\* nothing has been thrown inside the try block
NoError == "none"

Extraction(job, d) ==
  [ job |-> job, document |-> d,
    textract |-> "idle", pass1 |-> "idle", pass2 |-> "idle",
    fusion |-> "idle", hybridResult |-> NoResult, error |-> NoError ]

InitProcess ==
  /\ pc = "validate"
  /\ extraction \in {Extraction(job, d) : job \in Jobs, d \in Documents}
  /\ doc = PendingRow
  /\ writes = <<>>
  /\ records = <<>>
  /\ tmp = <<>>
  /\ extractedData = <<>>
  /\ idx = 0
  /\ fm = InitialMappings
  /\ textractResult = NoInput
  /\ openaiResult = NoInput
  /\ result = NoResult
  /\ call = NoCall
  /\ history = <<>>
  /\ invocations = <<>>

elsewhere == <<extractedData, idx, fm, call, history, invocations, records, tmp>>

\* supabase.from('documents').update(fields): the row changes when the update
\* is applied, and not otherwise
updated(row, fields, o) ==
  IF o = "ok" THEN [k \in DOMAIN row |-> IF k \in DOMAIN fields THEN fields[k] ELSE row[k]]
  ELSE row

logged(fields, o) ==
  Append(writes, [ status |-> IF "status" \in DOMAIN fields THEN fields.status ELSE "unchanged",
                   processing_progress |-> fields.processing_progress,
                   outcome |-> o ])

\* an awaited update whose returned error is not looked at: a rejection goes
\* to the catch block, everything else goes on
UpdateProgress(at, fields, next) ==
  /\ pc = at
  /\ \E o \in WriteOutcomes :
       /\ doc' = updated(doc, fields, o)
       /\ writes' = logged(fields, o)
       /\ pc' = IF o = "throws" THEN "catch" ELSE next
       /\ extraction' = IF o = "throws" THEN [extraction EXCEPT !.error = "update rejected"]
                        ELSE extraction
  /\ UNCHANGED <<textractResult, openaiResult, result, elsewhere>>

\* an Error is thrown inside the try block: control goes to the catch block
raise(e) ==
  /\ pc' = "catch"
  /\ extraction' = [extraction EXCEPT !.error = e]
  /\ UNCHANGED <<doc, writes, textractResult, openaiResult, result, elsewhere>>

goto(next) ==
  /\ pc' = next
  /\ UNCHANGED <<doc, writes, extraction, textractResult, openaiResult, result, elsewhere>>

\* required fields and UUID format
Validate ==
  /\ pc = "validate"
  /\ IF extraction.job.valid THEN goto("markProcessing")
     ELSE raise("Missing required fields")

MarkProcessing ==
  UpdateProgress("markProcessing", [status |-> "processing", processing_progress |-> 10],
                 "checkUrl")

\* validateFileUrl and the path check
CheckUrl ==
  /\ pc = "checkUrl"
  /\ IF extraction.job.urlOk THEN goto("download") ELSE raise("Invalid file URL")

\* storage download: downloadError is thrown
Download ==
  /\ pc = "download"
  /\ \E ok \in BOOLEAN : IF ok THEN goto("progress30") ELSE raise("Failed to download file")

Progress30 ==
  UpdateProgress("progress30", [processing_progress |-> 30], "extract")

extracting(e, next) ==
  /\ extraction' = e
  /\ pc' = next
  /\ UNCHANGED <<doc, writes, textractResult, openaiResult, result, elsewhere>>

\* Promise.all([extractFromUrl(...), runOpenAIExtraction(..., null)]): both
\* calls are started, then the function awaits them
StartExtractions ==
  /\ pc = "extract"
  /\ extracting([extraction EXCEPT !.textract = "running", !.pass1 = "running"], "pass1")

\* textractService.extractFromUrl settles
TextractSettles ==
  /\ extraction.textract = "running"
  /\ \E to \in {"done", "failed"} : extracting([extraction EXCEPT !.textract = to], pc)

\* where a pass of runOpenAIExtraction goes after runs.retrieve answered
afterRetrieve(status) ==
  IF status \in {"in_progress", "queued"} THEN "sleeping"
  ELSE IF status = "completed" THEN "done"
  ELSE "failed"

\* runOpenAIExtraction on a PDF: runs.retrieve, then the while loop
Retrieve ==
  \E pass \in {"pass1", "pass2"} :
    /\ extraction[pass] = "running"
    /\ extraction.job.kind = "pdf"
    /\ \E status \in RunStatuses :
         extracting([extraction EXCEPT ![pass] = afterRetrieve(status)], pc)

\* await new Promise(resolve => setTimeout(resolve, 1000)), then retrieve again
Sleep ==
  \E pass \in {"pass1", "pass2"} :
    /\ extraction[pass] = "sleeping"
    /\ extracting([extraction EXCEPT ![pass] = "running"], pc)

\* runOpenAIExtraction on an image is one chat completion; any other file
\* type is an Error
Completion ==
  \E pass \in {"pass1", "pass2"} :
    /\ extraction[pass] = "running"
    /\ extraction.job.kind # "pdf"
    /\ \E to \in IF extraction.job.kind = "image" THEN {"done", "failed"} ELSE {"failed"} :
         extracting([extraction EXCEPT ![pass] = to], pc)

\* faulty variant of allFulfilled: the first fulfilled promise is enough
anyFulfilled(e) == e.textract = "done" \/ e.pass1 = "done"

\* Promise.all fulfils when every promise has fulfilled
allFulfilled(e) == e.textract = "done" /\ e.pass1 = "done"

\* Promise.all rejects as soon as one promise has rejected
anyRejected(e) == e.textract = "failed" \/ e.pass1 = "failed"

\* the value an extraction has delivered
delivered(state, value) == IF state = "done" THEN value ELSE NoInput

\* const [textractResult, openaiResult] = await Promise.all(...); then pass 2
\* is started with textractResult.  The result of pass 1 is not used again:
\* openaiResult here is what is passed to combine, enhancedOpenaiResult
JoinFulfilled ==
  /\ pc = "pass1"
  /\ allFulfilled(extraction)
  /\ textractResult' = delivered(extraction.textract, extraction.document.textractResult)
  /\ extraction' = [extraction EXCEPT !.pass2 = "running"]
  /\ pc' = "pass2"
  /\ UNCHANGED <<doc, writes, openaiResult, result, elsewhere>>

JoinRejected ==
  /\ pc = "pass1"
  /\ anyRejected(extraction)
  /\ raise("extraction failed")

\* const enhancedOpenaiResult = await runOpenAIExtraction(..., textractResult)
Pass2Settles ==
  /\ pc = "pass2"
  /\ extraction.pass2 \in {"done", "failed"}
  /\ openaiResult' = delivered(extraction.pass2, extraction.document.openaiResult)
  /\ pc' = IF extraction.pass2 = "done" THEN "combine" ELSE "catch"
  /\ extraction' = IF extraction.pass2 = "done" THEN extraction
                   ELSE [extraction EXCEPT !.error = "extraction failed"]
  /\ UNCHANGED <<doc, writes, textractResult, result, elsewhere>>

\* const hybridResult = await fusionEngine.combine(textractResult, enhancedOpenaiResult)
fused(r) ==
  /\ extraction' = [extraction EXCEPT !.fusion = "invoked",
                                      !.hybridResult = IF isThrow(r) THEN NoResult ELSE r,
                                      !.error = IF isThrow(r) THEN r.error ELSE NoError]
  /\ pc' = IF isThrow(r) THEN "catch" ELSE "progress70"
  /\ UNCHANGED <<doc, writes, textractResult, openaiResult, result, elsewhere>>

Combine ==
  /\ pc = "combine"
  /\ \E r \in {combine(textractResult, openaiResult)} : fused(r)

Progress70 ==
  UpdateProgress("progress70", [processing_progress |-> 70], "complete")

\* what is saved as extracted_data
extractedDataOf(hybridResult) ==
  [ field_mappings |-> hybridResult.fieldMappings,
    cross_validation |-> hybridResult.crossValidation,
    hybrid_confidence |-> hybridResult.confidence ]

Success(data) == [success |-> TRUE, extractedData |-> data]
Failure(e) == [success |-> FALSE, error |-> e]

\* faulty variant of afterCompleted: the returned error is not looked at
afterCompletedUnchecked(o, data) ==
  IF o = "throws" THEN [pc |-> "catch", result |-> NoResult, error |-> "update rejected"]
  ELSE [pc |-> "returned", result |-> Success(data), error |-> NoError]

\* if (updateError) throw ...; otherwise return { success: true, ... }
afterCompleted(o, data) ==
  IF o = "ok" THEN [pc |-> "returned", result |-> Success(data), error |-> NoError]
  ELSE [pc |-> "catch", result |-> NoResult,
        error |-> IF o = "error" THEN "Database update failed" ELSE "update rejected"]

\* save the results and mark as complete
Complete ==
  /\ pc = "complete"
  /\ \E o \in WriteOutcomes, data \in {extractedDataOf(extraction.hybridResult)} :
       \E fields \in {[ status |-> "completed", processing_progress |-> 100,
                        extracted_data |-> data ]} :
         /\ doc' = updated(doc, fields, o)
         /\ writes' = logged(fields, o)
         /\ pc' = afterCompleted(o, data).pc
         /\ result' = afterCompleted(o, data).result
         /\ extraction' = [extraction EXCEPT !.error = afterCompleted(o, data).error]
  /\ UNCHANGED <<textractResult, openaiResult, elsewhere>>

\* a rejection of the update to 'failed' is caught by the inner try and
\* logged: the catch block always goes on to its return statement
afterFailed == "returned"

\* the catch block: the update to 'failed' is awaited inside its own try, its
\* returned error is not looked at, and the function returns success: false
MarkFailed ==
  /\ pc = "catch"
  /\ \E o \in WriteOutcomes :
       \E fields \in {[status |-> "failed", processing_progress |-> 0]} :
         /\ doc' = updated(doc, fields, o)
         /\ writes' = logged(fields, o)
  /\ pc' = afterFailed
  /\ result' = Failure(extraction.error)
  /\ UNCHANGED <<extraction, textractResult, openaiResult, elsewhere>>

NextProcess ==
  \/ Validate \/ MarkProcessing \/ CheckUrl \/ Download \/ Progress30
  \/ StartExtractions \/ TextractSettles \/ Retrieve \/ Sleep \/ Completion
  \/ JoinFulfilled \/ JoinRejected \/ Pass2Settles \/ Combine
  \/ Progress70 \/ Complete \/ MarkFailed

SpecProcess == InitProcess /\ [][NextProcess]_vars

\* ------------------------------------------------------------------------
\* SpecHandler: one invocation of the SQS handler on a batch.  records holds
\* one entry per record of event.Records with the position of its callback;
\* tmp is the /tmp directory of the Lambda instance (file name -> content),
\* which all the callbacks of the invocation share.  The PDF a record
\* downloads is named by the index of the record.
\* ------------------------------------------------------------------------
MaxRecords == 2

FileNames == {"a.pdf", "b.pdf"}

\* what processDocument does with a job when it runs alone: it succeeds, the
\* job fails validation before any file is written, or the assistant run
\* of the first pass ends 'failed'
Fates == {"ok", "invalid", "runFails"}

Unparsable == [parses |-> FALSE, filename |-> "", fate |-> ""]

\* record.body: a JSON job, or text JSON.parse rejects
Bodies ==
  {Unparsable} \cup
  { [parses |-> TRUE, filename |-> f, fate |-> "ok"] : f \in FileNames } \cup
  { [parses |-> TRUE, filename |-> "a.pdf", fate |-> fate] : fate \in Fates }

Record(body) ==
  [ body |-> body, at |-> "mapped", status |-> "pending", returned |-> NoResult,
    uploaded |-> {} ]

InitHandler ==
  /\ pc = "awaiting"
  /\ \E n \in 1..MaxRecords : records \in [1..n -> {Record(b) : b \in Bodies}]
  /\ tmp = <<>>
  /\ doc = NoRow
  /\ writes = <<>>
  /\ extraction = NoExtraction
  /\ extractedData = <<>>
  /\ idx = 0
  /\ fm = InitialMappings
  /\ textractResult = NoInput
  /\ openaiResult = NoInput
  /\ result = NoResult
  /\ call = NoCall
  /\ history = <<>>
  /\ invocations = <<>>

outside ==
  <<extractedData, idx, fm, textractResult, openaiResult, history, invocations,
    doc, writes, extraction>>

\* fs.writeFileSync(path, buffer)
writeFile(dir, name, content) ==
  [f \in DOMAIN dir \cup {name} |-> IF f = name THEN content ELSE dir[f]]

\* fs.unlinkSync(path) of an existing file
unlink(dir, name) == [f \in DOMAIN dir \ {name} |-> dir[f]]

moved(i, fields) ==
  [records EXCEPT ![i] = [k \in DOMAIN @ |-> IF k \in DOMAIN fields THEN fields[k] ELSE @[k]]]

callback(rs, dir) ==
  /\ records' = rs
  /\ tmp' = dir
  /\ UNCHANGED <<pc, result, call, outside>>

\* processDocument returns { success: false }
fails(i) == callback(moved(i, [at |-> "return", returned |-> [success |-> FALSE]]), tmp)

\* const jobData = JSON.parse(record.body); processDocument(jobData) is
\* called and validates the job
Parse ==
  \E i \in DOMAIN records :
    /\ records[i].at = "mapped"
    /\ IF ~records[i].body.parses
       THEN callback(moved(i, [at |-> "settled", status |-> "rejected"]), tmp)
       ELSE IF records[i].body.fate = "invalid" THEN fails(i)
       ELSE callback(moved(i, [at |-> "write1"]), tmp)

afterWrite(at) == IF at = "write1" THEN "upload1" ELSE "upload2"
afterUpload(at) == IF at = "upload1" THEN "unlink1" ELSE "unlink2"

\* runOpenAIExtraction: tempFilePath = path.join('/tmp', jobData.filename);
\* fs.writeFileSync(tempFilePath, buffer)
WriteTemp ==
  \E i \in DOMAIN records :
    /\ records[i].at \in {"write1", "write2"}
    /\ callback(moved(i, [at |-> afterWrite(records[i].at)]),
                writeFile(tmp, records[i].body.filename, i))

\* openai.files.create({ file: fs.createReadStream(tempFilePath) }): the
\* stream reads what the file holds when the upload runs; then the assistant
\* run, whose failure is an Error
Upload ==
  \E i \in DOMAIN records :
    /\ records[i].at \in {"upload1", "upload2"}
    /\ IF records[i].body.filename \notin DOMAIN tmp THEN fails(i)
       ELSE IF records[i].body.fate = "runFails"
       THEN callback(moved(i, [at |-> "return", returned |-> [success |-> FALSE],
                               uploaded |-> records[i].uploaded
                                              \cup {tmp[records[i].body.filename]}]), tmp)
       ELSE callback(moved(i, [at |-> afterUpload(records[i].at),
                               uploaded |-> records[i].uploaded
                                              \cup {tmp[records[i].body.filename]}]), tmp)

\* fs.unlinkSync(tempFilePath) throws ENOENT when the file is not there;
\* after the second pass processDocument goes on to its return
Unlink ==
  \E i \in DOMAIN records :
    /\ records[i].at \in {"unlink1", "unlink2"}
    /\ IF records[i].body.filename \notin DOMAIN tmp THEN fails(i)
       ELSE IF records[i].at = "unlink1"
       THEN callback(moved(i, [at |-> "write2"]), unlink(tmp, records[i].body.filename))
       ELSE callback(moved(i, [at |-> "return", returned |-> [success |-> TRUE]]),
                     unlink(tmp, records[i].body.filename))

\* faulty variant of settle: the callback returns the result whatever it is
settleAlways(r) == "fulfilled"

\* if (result.success) ... else throw new Error(result.error); return result
settle(r) == IF r.success THEN "fulfilled" ELSE "rejected"

Return ==
  \E i \in DOMAIN records :
    /\ records[i].at = "return"
    /\ callback(moved(i, [at |-> "settled", status |-> settle(records[i].returned)]), tmp)

count(status) == Cardinality({i \in DOMAIN records : records[i].status = status})

\* after Promise.allSettled: the counts are logged, then the handler throws
\* or returns
Tally ==
  /\ pc = "awaiting"
  /\ \A i \in DOMAIN records : records[i].status # "pending"
  /\ \E successful \in {count("fulfilled")}, failed \in {count("rejected")} :
       /\ call' = [fn |-> "handler", successful |-> successful, failed |-> failed]
       /\ IF failed > 0
          THEN /\ pc' = "thrown"
               /\ result' = Throw("Batch processing failed")
          ELSE /\ pc' = "returned"
               /\ result' = [ statusCode |-> 200,
                              body |-> [ processed |-> Len(records),
                                         successful |-> successful,
                                         failed |-> failed ] ]
  /\ UNCHANGED <<records, tmp, outside>>

NextHandler == Parse \/ WriteTemp \/ Upload \/ Unlink \/ Return \/ Tally

SpecHandler == InitHandler /\ [][NextHandler]_vars

\* ------------------------------------------------------------------------
\* Properties of applyFieldMappings (checked under SpecMap)
\* ------------------------------------------------------------------------
\* the dictionary entry the i-th raw key of the input resolves to
resolved(i) == findFieldMapping(extractedData[i].key)

\* the visited keys before the j-th that resolve to dictionary entry m
earlierKeys(j, m) == {i \in 1..(j - 1) : resolved(i) = m}

detailKeys(acc) == {acc.mappingDetails[d].sourceKey : d \in 1..Len(acc.mappingDetails)}
unmappedKeys(acc) == {acc.unmapped[u].key : u \in 1..Len(acc.unmapped)}

\* the j-th key resolves to entry m, and so does a key visited before it
laterKeyDropped(j, m) ==
  (m # NoMapping /\ earlierKeys(j, m) # {}) =>
    /\ fm.mapped[FIELD_MAPPINGS[m].targetField] =
         transformValue(FIELD_MAPPINGS[m],
                        extractedData[SetMin(earlierKeys(j, m))].value)
    /\ extractedData[j].key \notin detailKeys(fm)
    /\ extractedData[j].key \notin unmappedKeys(fm)

\* C1: when two or more visited keys resolve to the same field F, mapped[F]
\* is the transformed value of the earliest of them, and none of the later
\* ones is recorded in mappingDetails or in unmapped.
C1_FirstMatchWins ==
  \A j \in 1..idx : \A m \in {resolved(j)} : laterKeyDropped(j, m)

\* two visited keys resolve to entry m and their transformed values differ
overwriteWouldShow(i, j, m) ==
  /\ m # NoMapping
  /\ resolved(i) = m
  /\ transformValue(FIELD_MAPPINGS[m], extractedData[i].value)
       # transformValue(FIELD_MAPPINGS[m], extractedData[j].value)

\* C1 witness: the call returned, two keys resolved to one field and their
\* transformed values differ, so an overwrite would show
C1_Witness ==
  /\ pc = "returned"
  /\ \E j \in 1..idx : \E m \in {resolved(j)} :
       \E i \in 1..(j - 1) : overwriteWouldShow(i, j, m)

\* C4: an input whose only key is a synonym v of dictionary entry F, in any
\* letter case and with any surrounding white space, populates F's field.
C4_EverySynonymPopulatesItsField ==
  (pc = "returned" /\ Len(extractedData) = 1) =>
    \A i \in 1..Len(FIELD_MAPPINGS) :
      \A j \in 1..Len(FIELD_MAPPINGS[i].sourceVariations) :
        trim(toLowerCase(extractedData[1].key)) = FIELD_MAPPINGS[i].sourceVariations[j]
          => fm.mapped[FIELD_MAPPINGS[i].targetField] # JNull

\* ------------------------------------------------------------------------
\* Properties of FusionEngine.combine (checked under Spec)
\* ------------------------------------------------------------------------
\* combine returned a HybridExtractionResult
combined == pc = "returned" /\ result.t = "HybridExtractionResult"

\* the merged fields, the deterministic mapping and source B's guess for f
mergedFields == result.businessLogic.accounting_fields
directMapped == result.fieldMappings.mapped
guessFor(f) ==
  IF Truthy(openaiResult.extracted_data)
  THEN Lookup(openaiResult.extracted_data.entries, f)
  ELSE JUndefined

\* C2: every canonical field whose deterministic value is non-null is merged
\* as { the deterministic value, 0.95, direct-mapping }, whatever source B
\* guesses for it.
C2_DeterministicValueWins ==
  combined =>
    \A f \in TargetFields :
      NotNullish(directMapped[f]) =>
        mergedFields[f] = [ value |-> directMapped[f],
                            confidence |-> JNum(950),
                            source |-> "direct-mapping" ]

\* C2 witness: a field has a deterministic value and source B guesses
\* another value for it
C2_Witness ==
  /\ combined
  /\ \E f \in TargetFields :
       /\ NotNullish(directMapped[f])
       /\ guessFor(f).t = "object"
       /\ NotNullish(guessFor(f).value)
       /\ guessFor(f).value # directMapped[f]

\* C3: combine returns for every pair of source inputs: no exception leaves it.
C3_NeverRaises == pc # "raised"

\* source B supplies no value for f: no guess, or a guess whose value is null
noGuessedValue(f) ==
  \/ guessFor(f) = JUndefined
  \/ guessFor(f).t = "object" /\ guessFor(f).value = JNull

\* C5: a field with a null deterministic value for which source B supplies
\* no value is merged as { null, 0, none }.
C5_NeitherSourceGivesNone ==
  combined =>
    \A f \in TargetFields :
      (directMapped[f] = JNull /\ noGuessedValue(f)) =>
        mergedFields[f] = [value |-> JNull, confidence |-> JNum(0), source |-> "none"]

\* the confidence a guess states, 0.8 when it states none
statedConfidence(guess) ==
  IF guess.confidence = JUndefined THEN JNum(800) ELSE guess.confidence

\* C6: a field with a null deterministic value and a guess { value: v,
\* confidence: c } with v non-null is merged as { v, c, openai }, with c = 0.8
\* only when the guess states no confidence.
C6_GuessTakenAsStated ==
  combined =>
    \A f \in TargetFields :
      (/\ directMapped[f] = JNull
       /\ guessFor(f).t = "object"
       /\ guessFor(f).value # JNull) =>
        mergedFields[f] = [ value |-> guessFor(f).value,
                            confidence |-> statedConfidence(guessFor(f)),
                            source |-> "openai" ]

\* ------------------------------------------------------------------------
\* Properties of performCrossValidation, read off the result of combine
\* ------------------------------------------------------------------------
crossValidation == result.crossValidation
enteredFields == DOMAIN crossValidation.validatedFields
consensusFields ==
  {f \in enteredFields : crossValidation.validatedFields[f].source = "consensus"}
CommonFields == {commonFields[i] : i \in 1..Len(commonFields)}

\* the candidates of the two sources for a cross-checked field
candidateA(f) == extractFieldFromTextract(f, textractResult)
candidateB(f) == extractFieldFromOpenAI(f, openaiResult)
occurrences(s, x) == Cardinality({i \in 1..Len(s) : s[i] = x})
conflicting(f) == occurrences(crossValidation.conflictingFields, f) > 0

\* the score is the fraction n / d
scoreIs(n, d) ==
  crossValidation.agreementScore.num * d = n * crossValidation.agreementScore.den

\* a field with candidates a and b was left out of the cross-validation
skipped(f) == f \notin enteredFields /\ ~conflicting(f)

oneSidedSkipped(f, a, b) == (Truthy(a) # Truthy(b)) => skipped(f)

\* C7: a field for which only one source yields a candidate is neither
\* compared nor listed as conflicting; with zero key-value pairs in source A
\* the score is 0.5.
C7_OneSidedFieldsSkipped ==
  combined =>
    /\ \A f \in CommonFields :
         \A a \in {candidateA(f)}, b \in {candidateB(f)} : oneSidedSkipped(f, a, b)
    /\ textractResult.keyValuePairs.entries = <<>> => scoreIs(1, 2)

withoutCandidatesSkipped(f, a, b) == (~Truthy(a) /\ ~Truthy(b)) => skipped(f)

\* the part of C8 that does not depend on how "exactly when" is read
scoreIsConsensusOverEntered ==
  /\ enteredFields # {} =>
       scoreIs(Cardinality(consensusFields), Cardinality(enteredFields))
  /\ crossValidation.agreementScore.den > 0
  /\ crossValidation.agreementScore.num >= 0
  /\ crossValidation.agreementScore.num <= crossValidation.agreementScore.den
  /\ \A f \in CommonFields :
       \A a \in {candidateA(f)}, b \in {candidateB(f)} :
          withoutCandidatesSkipped(f, a, b)
  /\ enteredFields \subseteq CommonFields

\* C8 as amended: the score is consensus / entered, lies in [0,1], and is
\* 0.5 whenever no field was entered (it is 0.5 too when half of the entered
\* fields are consensus); a field without candidates is never entered.
C8_ScoreIsConsensusRatio ==
  combined =>
    /\ scoreIsConsensusOverEntered
    /\ enteredFields = {} => scoreIs(1, 2)

\* C8 as stated: the score is 0.5 if and only if no field was entered.
C8_HalfOnlyWhenNothingEntered ==
  combined =>
    /\ scoreIsConsensusOverEntered
    /\ enteredFields = {} <=> scoreIs(1, 2)

withoutCandidates(a, b) == ~Truthy(a) /\ ~Truthy(b)

\* C8 witness: two fields were entered, one by consensus and one in conflict,
\* and some cross-checked field had no candidate
C8_Witness ==
  /\ combined
  /\ Cardinality(enteredFields) = 2
  /\ Cardinality(consensusFields) = 1
  /\ \E f \in CommonFields :
       \E a \in {candidateA(f)}, b \in {candidateB(f)} : withoutCandidates(a, b)

\* candidates a and b of field f were compared, with outcome isMatch
compared(f, a, b, isMatch) ==
  (Truthy(a) \/ Truthy(b)) /\ fieldsMatch(a, b, f) = JBool(isMatch)

\* the entry of f after a mismatch of its candidates a and b
conflictRecorded(f, a, b) ==
  compared(f, a, b, FALSE) =>
    /\ occurrences(crossValidation.conflictingFields, f) = 1
    /\ f \in enteredFields
    /\ crossValidation.validatedFields[f].textractValue = a
    /\ crossValidation.validatedFields[f].openaiValue = b
    /\ textractResult.confidence > openaiResult.confidence =>
         /\ crossValidation.validatedFields[f].finalValue = a
         /\ crossValidation.validatedFields[f].confidence
              = (8 * textractResult.confidence) \div 10
    /\ openaiResult.confidence > textractResult.confidence =>
         /\ crossValidation.validatedFields[f].finalValue = b
         /\ crossValidation.validatedFields[f].confidence
              = (8 * openaiResult.confidence) \div 10

consensusRecorded(f, a, b) ==
  compared(f, a, b, TRUE) =>
    /\ f \in enteredFields
    /\ crossValidation.validatedFields[f] =
         [ textractValue |-> a,
           openaiValue |-> b,
           finalValue |-> a,
           confidence |-> 950,
           source |-> "consensus" ]
    /\ ~conflicting(f)

\* C10: a compared field whose candidates match is entered with origin
\* consensus, confidence 0.95 and source A's candidate as finalValue, and is
\* not listed in conflictingFields.
C10_MatchIsConsensus ==
  combined =>
    \A f \in CommonFields :
      \A a \in {candidateA(f)}, b \in {candidateB(f)} : consensusRecorded(f, a, b)

matchedThoughDifferent(f, a, b) == compared(f, a, b, TRUE) /\ a # b

\* C10 witness: a field matched although the two candidates are written
\* differently
C10_Witness ==
  /\ combined
  /\ \E f \in CommonFields :
       \E a \in {candidateA(f)}, b \in {candidateB(f)} : matchedThoughDifferent(f, a, b)

\* ------------------------------------------------------------------------
\* Properties of the matchers, the confidence formula and the mapping lookup
\* ------------------------------------------------------------------------
appliedTo(fn) == pc = "applied" /\ call.fn = fn

\* both candidates parse to numbers
bothParse(a, b) == a.t = "number" /\ b.t = "number"

\* |a-b| / ((a+b)/2) < 0.01, in thousandths and without the division
relativeDifferenceUnderOnePercent(a, b) == 200 * abs(a.n - b.n) < a.n + b.n

amountsCompared(a, b) ==
  /\ a.n + b.n > 0 => (call.ret = JBool(relativeDifferenceUnderOnePercent(a, b)))
  /\ a.n = b.n => call.ret = JBool(TRUE)

amountExamples ==
  /\ call.args[1] = JStr(V_Amount100) /\ call.args[2] = JStr(V_Amount10050)
       => call.ret = JBool(TRUE)
  /\ call.args[1] = JStr(V_Amount100) /\ call.args[2] = JStr(V_Amount105)
       => call.ret = JBool(FALSE)

\* C11: on an amount field, two candidates that parse to numbers a and b match
\* exactly when |a-b| / ((a+b)/2) < 0.01; '100.00' matches '100.50' and not
\* '105.00'; equal amounts always match.
C11_AmountsMatchWithinOnePercent ==
  appliedTo("fieldsMatch") /\ call.args[3] \in AmountFields =>
    /\ amountExamples
    /\ \A a \in {normalizeAmount(call.args[1])}, b \in {normalizeAmount(call.args[2])} :
         bothParse(a, b) => amountsCompared(a, b)

\* ------------------------------------------------------------------------
\* candidates that cannot be compared (checked under Spec)
\* ------------------------------------------------------------------------
DateFields == {S_invoice_date, S_due_date}
notAString(v) == v.t # "string"
unparseableDate(v) == ~DateOf(v).valid
unparseableAmount(v) == v.t = "string" /\ normalizeAmount(v) = JUndefined

\* the truthy candidates a and b of field f cannot be meaningfully compared
incomparable(f, a, b) ==
  /\ Truthy(a) /\ Truthy(b)
  /\ \/ notAString(a) \/ notAString(b)
     \/ f \in DateFields /\ (unparseableDate(a) \/ unparseableDate(b))
     \/ f \in AmountFields /\ (unparseableAmount(a) \/ unparseableAmount(b))

\* cross-validation returns cv, with f among its conflicts
conflictIn(cv, f) ==
  /\ ~isThrow(cv)
  /\ occurrences(cv.conflictingFields, f) = 1

crossValidated == pc \in {"returned", "raised"} /\ textractResult.keyValuePairs.t = "map"

\* C12: a cross-checked field whose two candidates cannot be compared (an
\* unparseable date or amount, a candidate that is no string) is recorded as a
\* conflict, and performCrossValidation raises no exception.
C12_IncomparableIsConflict ==
  crossValidated =>
    \A f \in CommonFields :
      \A a \in {candidateA(f)}, b \in {candidateB(f)} :
        incomparable(f, a, b) =>
          \A cv \in {performCrossValidation(textractResult, openaiResult)} :
            conflictIn(cv, f)

\* ------------------------------------------------------------------------
\* the aggregate confidence (checked under SpecCalls)
\* ------------------------------------------------------------------------
\* the fraction r is min(0.6 a + 0.4 b + 0.1 s, 1.0), a and b in thousandths
isWeightedScore(r, a, b, s) ==
  \A sum \in {(6 * a + 4 * b) * s.den + 1000 * s.num}, one \in {10000 * s.den} :
    r.num * one = r.den * (IF sum < one THEN sum ELSE one)

inUnitInterval(r) == r.den > 0 /\ 0 <= r.num /\ r.num <= r.den

\* C13: calculateHybridConfidence(confA, confB, agreementScore) is
\* min(0.6 confA + 0.4 confB + 0.1 agreementScore, 1.0), a number of [0,1], and
\* the confidence of a result of combine is that value for the two
\* whole-document confidences and crossValidation.agreementScore.
C13_ConfidenceIsCappedWeightedSum ==
  /\ appliedTo("calculateHybridConfidence") =>
       /\ isWeightedScore(call.ret, call.args[1], call.args[2], call.args[3])
       /\ inUnitInterval(call.ret)
  /\ appliedTo("combine") /\ ~isThrow(call.ret) =>
       /\ isWeightedScore(call.ret.confidence, call.args[1].confidence,
                          call.args[2].confidence,
                          call.ret.crossValidation.agreementScore)
       /\ inUnitInterval(call.ret.confidence)

\* a result of combine whose weighted sum exceeds 1.0
C13_Witness ==
  /\ appliedTo("combine") /\ ~isThrow(call.ret)
  /\ call.args[1].confidence = 1000 /\ call.args[2].confidence = 1000
  /\ call.ret.crossValidation.agreementScore.num > 0
  /\ call.ret.confidence.num = call.ret.confidence.den

atMost(r1, r2) == r1.num * r2.den <= r2.num * r1.den

\* C14: with confA and confB fixed, calculateHybridConfidence does not
\* decrease when agreementScore grows; the score for 1.0 is at least the
\* score for 0.0.
C14_MonotoneInAgreement ==
  appliedTo("calculateHybridConfidence") =>
    \A s \in AgreementScores :
      atMost(call.args[3], s) =>
        atMost(call.ret, calculateHybridConfidence(call.args[1], call.args[2], s))

\* the score for agreement 0.0, strictly below the score for agreement 1.0
C14_Witness ==
  /\ appliedTo("calculateHybridConfidence")
  /\ call.args[3] = Ratio(0, 1)
  /\ ~atMost(calculateHybridConfidence(call.args[1], call.args[2], Ratio(1, 1)),
             call.ret)

\* ------------------------------------------------------------------------
\* repeated calls of applyFieldMappings (checked under SpecRepeat)
\* ------------------------------------------------------------------------
earlierCalls == 1..Len(history)

\* C15: applyFieldMappings returns the same mapped, unmapped and
\* mappingDetails for the same input, whatever calls came before or between.
C15_SameInputSameOutput ==
  /\ pc = "returned" =>
       \A i \in earlierCalls :
         history[i].input = extractedData => history[i].output = fm
  /\ \A i, j \in earlierCalls :
       history[i].input = history[j].input => history[i].output = history[j].output

\* the third call repeats the input of the first, after a call that mapped
\* another document
C15_Witness ==
  /\ pc = "returned"
  /\ Len(history) = 2
  /\ history[1].input = extractedData
  /\ history[2].input # extractedData
  /\ history[2].output.mappingDetails # <<>>
  /\ fm.mappingDetails # <<>>

\* ------------------------------------------------------------------------
\* interleaved invocations of combine (checked under SpecConcurrent)
\* ------------------------------------------------------------------------
over(inv) == inv.at \in {"returned", "raised"}

\* invocation inv ended as combine ends on its document alone
asAlone(inv) ==
  inv.result = combine(inv.given.textractResult, inv.given.openaiResult)

inputsUntouched(inv) ==
  /\ inv.textractResult = inv.given.textractResult
  /\ inv.openaiResult = inv.given.openaiResult

\* C16: every invocation of combine ends with the result it has when run
\* alone, whatever other invocations are interleaved with it, and leaves its
\* two source inputs as they were given.
C16_InvocationsIndependent ==
  \A i \in DOMAIN invocations :
    /\ inputsUntouched(invocations[i])
    /\ over(invocations[i]) => asAlone(invocations[i])

\* two invocations on different documents: the second was mapped while the
\* first was between its steps, and both returned
C16_Witness ==
  /\ Len(invocations) = 2
  /\ invocations[1].given # invocations[2].given
  /\ invocations[1].at = "returned"
  /\ invocations[2].at = "returned"

\* ------------------------------------------------------------------------
\* the lookup of a raw key in the dictionary
\* ------------------------------------------------------------------------
\* entry i has a synonym that the normalized key contains or that contains it
synonymMatches(normalizedKey, i) ==
  \E j \in 1..Len(FIELD_MAPPINGS[i].sourceVariations) :
    \/ includes(normalizedKey, FIELD_MAPPINGS[i].sourceVariations[j])
    \/ includes(FIELD_MAPPINGS[i].sourceVariations[j], normalizedKey)

matchingEntries(key) ==
  {i \in 1..Len(FIELD_MAPPINGS) : synonymMatches(trim(toLowerCase(key)), i)}

firstMatching(found, matching) ==
  IF matching = {} THEN found = NoMapping
  ELSE found # NoMapping /\ found \in matching /\ \A i \in matching : found <= i

blank(key) == trim(key) = <<>>

\* C18: findFieldMapping returns the first entry of FIELD_MAPPINGS, in
\* declaration order, with a synonym that the lower-cased, trimmed key
\* contains or that contains it, and no mapping exactly when there is no such
\* entry; an empty or white-space key resolves to the first entry.
C18_FirstMatchingEntry ==
  appliedTo("findFieldMapping") =>
    /\ \A matching \in {matchingEntries(call.args[1])} :
         firstMatching(call.ret, matching)
    /\ blank(call.args[1]) => call.ret = 1

\* a key that several entries match only because a synonym contains it
C18_Witness ==
  /\ appliedTo("findFieldMapping")
  /\ ~blank(call.args[1])
  /\ Cardinality(matchingEntries(call.args[1])) >= 2
  /\ \A i \in 1..Len(FIELD_MAPPINGS) :
       ~variationMatchesKeyContains(FIELD_MAPPINGS[i], trim(toLowerCase(call.args[1])))
  /\ call.ret # NoMapping

\* ------------------------------------------------------------------------
\* what applyFieldMappings returns (checked under SpecMap)
\* ------------------------------------------------------------------------
visited == {extractedData[i] : i \in 1..idx}
matchesNoField(e) == matchingEntries(e.key) = {}
unmappedPairs == {fm.unmapped[u] : u \in 1..Len(fm.unmapped)}

\* C17: unmapped holds exactly the input pairs whose key matches no field,
\* each once, under its key and with its value as given.
C17_UnmappedIsTheUnmatchedPairs ==
  /\ unmappedPairs = {e \in visited : matchesNoField(e)}
  /\ Len(fm.unmapped) = Cardinality(unmappedPairs)

\* the call returned for an input with a pair that matches no field and a
\* pair that matches one
C17_Witness ==
  /\ pc = "returned"
  /\ idx = Len(extractedData)
  /\ \E e \in visited : matchesNoField(e) /\ e \in unmappedPairs
  /\ \E e \in visited : ~matchesNoField(e) /\ e \notin unmappedPairs

detailsFor(f) ==
  {d \in 1..Len(fm.mappingDetails) : fm.mappingDetails[d].targetField = f}

detailAgrees(d) ==
  /\ d.targetField \in TargetFields
  /\ d.value = fm.mapped[d.targetField]
  /\ d.confidence = 950

\* C19: mapped has an entry for every canonical field; mappingDetails has one
\* record for every field with a non-null value and none for a null field;
\* a record's value is mapped[targetField] and its confidence is 0.95.
C19_DetailsParallelMapped ==
  /\ DOMAIN fm.mapped = TargetFields
  /\ \A f \in TargetFields :
       Cardinality(detailsFor(f)) = IF fm.mapped[f] = JNull THEN 0 ELSE 1
  /\ \A d \in 1..Len(fm.mappingDetails) : detailAgrees(fm.mappingDetails[d])

\* the call returned with two fields filled, one pair skipped because its
\* field was taken
C19_Witness ==
  /\ pc = "returned"
  /\ Len(fm.mappingDetails) = 2
  /\ \E i \in 1..Len(extractedData) :
       /\ ~matchesNoField(extractedData[i])
       /\ extractedData[i].key \notin detailKeys(fm)

\* ------------------------------------------------------------------------
\* values the transforms cannot coerce (checked under SpecMap)
\* ------------------------------------------------------------------------
noDigits(v) == \A i \in 1..Len(v.s) : ~isDigit(v.s[i])

\* the value of the j-th pair, whose key resolves to entry m, fails m's transform
failing(j, m) ==
  /\ m # NoMapping
  /\ \/ FIELD_MAPPINGS[m].transform = "parseAmount" /\ noDigits(extractedData[j].value)
     \/ FIELD_MAPPINGS[m].transform = "parseDate" /\ unparseableDate(extractedData[j].value)

\* what the failing value of entry m's field falls back to
fallback(j, m) ==
  IF FIELD_MAPPINGS[m].transform = "parseAmount" THEN JNum(0) ELSE extractedData[j].value

\* the input with the j-th value replaced by one that m's transform accepts
repaired(j, m) ==
  [extractedData EXCEPT ![j].value =
     IF FIELD_MAPPINGS[m].transform = "parseAmount"
     THEN JStr(V_Amount100) ELSE JStr(V_Jan15ISO)]

provenance(details) ==
  [d \in 1..Len(details) |->
     [sourceKey |-> details[d].sourceKey, targetField |-> details[d].targetField]]

\* apart from the value of field f, the call returned what r is
sameApartFrom(f, r) ==
  /\ \A g \in TargetFields \ {f} : fm.mapped[g] = r.mapped[g]
  /\ fm.unmapped = r.unmapped
  /\ provenance(fm.mappingDetails) = provenance(r.mappingDetails)
  /\ \A d \in 1..Len(fm.mappingDetails) :
       fm.mappingDetails[d].targetField # f =>
         fm.mappingDetails[d] = r.mappingDetails[d]

failureContained(j, m) ==
  /\ earlierKeys(j, m) = {} =>
       fm.mapped[FIELD_MAPPINGS[m].targetField] = fallback(j, m)
  /\ \A r \in {applyFieldMappings(repaired(j, m))} :
       sameApartFrom(FIELD_MAPPINGS[m].targetField, r)

\* C20: a value its transform cannot coerce raises nothing: an unparseable
\* amount is mapped to 0, an unparseable date to the string itself, and every
\* other pair of the input is mapped as it is when the value can be coerced.
C20_TransformFailureContained ==
  pc = "returned" =>
    /\ \A f \in TargetFields : ~isThrow(fm.mapped[f]) /\ fm.mapped[f] # JNaN
    /\ \A j \in 1..Len(extractedData) :
         \A m \in {resolved(j)} : failing(j, m) => failureContained(j, m)

\* an unparseable amount mapped to 0 next to other pairs that were mapped
C20_Witness ==
  /\ pc = "returned"
  /\ Len(fm.mappingDetails) >= 2
  /\ \E j \in 1..Len(extractedData) :
       \E m \in {resolved(j)} :
         /\ failing(j, m)
         /\ FIELD_MAPPINGS[m].transform = "parseAmount"
         /\ fm.mapped[FIELD_MAPPINGS[m].targetField] = JNum(0)

\* ------------------------------------------------------------------------
\* the audit trail of combine (checked under Spec)
\* ------------------------------------------------------------------------
mappingTrail == result.fieldMappings.mappingTrail
mappingDetails == result.fieldMappings.mappingDetails
rawPairs == textractResult.keyValuePairs.entries

\* the raw pair stored under key has value v
rawValueIs(key, v) ==
  \E i \in 1..Len(rawPairs) : rawPairs[i].key = key /\ rawPairs[i].value = v

trailFollows(t, d) ==
  /\ t.sourceKey = d.sourceKey
  /\ t.targetField = d.targetField
  /\ t.mappedValue = d.value
  /\ t.confidence = d.confidence
  /\ rawValueIs(d.sourceKey, t.sourceValue)

\* C22: mappingTrail has one entry per mapping detail, in the same order,
\* with the detail's sourceKey, targetField, value and confidence, and with
\* the raw value stored under sourceKey in keyValuePairs as sourceValue.
C22_TrailFollowsDetails ==
  combined =>
    /\ Len(mappingTrail) = Len(mappingDetails)
    /\ \A i \in 1..Len(mappingTrail) : trailFollows(mappingTrail[i], mappingDetails[i])

\* two details for different fields, the raw values unlike the mapped ones
C22_Witness ==
  /\ combined
  /\ Len(mappingDetails) = 2
  /\ mappingDetails[1].targetField # mappingDetails[2].targetField
  /\ \A i \in 1..2 : mappingTrail[i].sourceValue # mappingTrail[i].mappedValue

\* ------------------------------------------------------------------------
\* the final value of a cross-validated field (checked under Spec)
\* ------------------------------------------------------------------------
supplied(v) == Truthy(v)

finalIsSuppliedCandidate(final, a, b) ==
  /\ final # JNull /\ final # JUndefined
  /\ (supplied(a) /\ final = a) \/ (supplied(b) /\ final = b)
  /\ supplied(a) /\ ~supplied(b) => final = a
  /\ supplied(b) /\ ~supplied(a) => final = b

\* C27: the finalValue of every field entered in validatedFields is non-null
\* and is a candidate one of the sources supplied; with one source only, it
\* is that source's candidate.
C27_FinalValueIsACandidate ==
  combined =>
    \A f \in enteredFields :
      \A a \in {candidateA(f)}, b \in {candidateB(f)} :
        finalIsSuppliedCandidate(crossValidation.validatedFields[f].finalValue, a, b)

\* ------------------------------------------------------------------------
\* identical candidates (checked under SpecCalls, on the calls of combine)
\* ------------------------------------------------------------------------
sameCandidate(f, tr, or) ==
  \E a \in {extractFieldFromTextract(f, tr)} :
    Truthy(a) /\ a.t = "string" /\ a.s # <<>> /\ a = extractFieldFromOpenAI(f, or)

consensusIn(r, f) ==
  /\ ~isThrow(r)
  /\ f \in DOMAIN r.crossValidation.validatedFields
  /\ r.crossValidation.validatedFields[f].source = "consensus"
  /\ occurrences(r.crossValidation.conflictingFields, f) = 0

\* C28: a cross-checked field for which both sources supply the same
\* non-empty candidate (a text, a date or an amount, zero included) is
\* recorded as consensus and not as a conflict.
C28_SameCandidateIsConsensus ==
  appliedTo("combine") =>
    \A f \in CommonFields :
      sameCandidate(f, call.args[1], call.args[2]) => consensusIn(call.ret, f)

\* ------------------------------------------------------------------------
\* the raw pair behind a candidate of source A (checked under SpecCalls)
\* ------------------------------------------------------------------------
\* the index of the raw pair extractFieldFromTextract returns for f, 0 for none
chosenPairAt(kv, possibleKeys, a) ==
  IF a = 0 THEN 0 ELSE SetMin(pairsFor(kv, possibleKeys[a]))

chosenPair(f, kv) ==
  chosenPairAt(kv, textractAliases(f), firstAlias(kv, textractAliases(f)))

\* C29: no raw key-value pair is the source-A candidate of two different
\* cross-checked fields.
C29_OnePairOneField ==
  appliedTo("combine") =>
    \A f, g \in CommonFields :
      \A i \in {chosenPair(f, call.args[1].keyValuePairs.entries)} :
        (f # g /\ i # 0) => chosenPair(g, call.args[1].keyValuePairs.entries) # i

\* ------------------------------------------------------------------------
\* merged fields and cross-validation (checked under SpecConcurrent)
\* ------------------------------------------------------------------------
returnedRuns == {i \in DOMAIN invocations : invocations[i].at = "returned"}
mergedOf(inv) == inv.result.businessLogic.accounting_fields
validatedOf(inv) == inv.result.crossValidation.validatedFields

\* two runs with the same mapper output and the same guesses of source B
sameMergeInputs(r, s) ==
  /\ r.result.fieldMappings.mapped = s.result.fieldMappings.mapped
  /\ r.openaiResult.extracted_data = s.openaiResult.extracted_data

\* a field decided for source A in the cross-validation keeps, as merged
\* field, the guess of source B
finalValueNotCopied(inv) ==
  \A f \in DOMAIN mergedOf(inv) \cap DOMAIN validatedOf(inv) :
    validatedOf(inv)[f].source = "textract" =>
      /\ mergedOf(inv)[f].value = validatedOf(inv)[f].openaiValue
      /\ mergedOf(inv)[f].source = "openai"
      /\ mergedOf(inv)[f].confidence # JNum(validatedOf(inv)[f].confidence)

\* C30: runs of combine with equal mapper output and equal guesses have
\* equal merged fields, whatever their cross-validation recorded, and no
\* finalValue or penalised confidence is copied into a merged field.
C30_MergedFieldsIgnoreCrossValidation ==
  /\ \A i, j \in returnedRuns :
       sameMergeInputs(invocations[i], invocations[j]) =>
         mergedOf(invocations[i]) = mergedOf(invocations[j])
  /\ \A i \in returnedRuns : finalValueNotCopied(invocations[i])

\* two runs with equal mapper output and guesses whose cross-validations
\* decided the conflict differently
C30_Witness ==
  \E i, j \in returnedRuns :
    /\ sameMergeInputs(invocations[i], invocations[j])
    /\ validatedOf(invocations[i]) # validatedOf(invocations[j])
    /\ \E f \in DOMAIN mergedOf(invocations[i]) \cap DOMAIN validatedOf(invocations[i]) :
         validatedOf(invocations[i])[f].source = "textract"

\* ------------------------------------------------------------------------
\* processDocument
\* ------------------------------------------------------------------------
\* control has reached the call of combine
atOrPastCombine ==
  pc \in {"combine", "progress70", "complete"} \/ extraction.fusion = "invoked"

extractionFailed ==
  "failed" \in {extraction.textract, extraction.pass1, extraction.pass2}

extractionUnfinished ==
  \/ extraction.textract \in {"idle", "running"}
  \/ extraction.pass2 \in {"idle", "running", "sleeping"}

\* C21: combine is invoked only when the Textract extraction and the OpenAI
\* extraction whose result it is given have both completed successfully, and
\* it is then called on their results; when an extraction has failed or has
\* not finished combine has not been invoked, and the row holds extracted
\* data only when it is the data of a fusion result that combine returned.
C21_CombineAfterBothExtractions ==
  /\ atOrPastCombine =>
       /\ extraction.textract = "done" /\ extraction.pass1 = "done"
       /\ extraction.pass2 = "done"
       /\ textractResult = extraction.document.textractResult
       /\ openaiResult = extraction.document.openaiResult
  /\ (extractionFailed \/ extractionUnfinished) => extraction.fusion = "idle"
  /\ doc.extracted_data # NoResult =>
       /\ extraction.fusion = "invoked"
       /\ extraction.hybridResult # NoResult
       /\ doc.extracted_data = extractedDataOf(extraction.hybridResult)

C21_Witness ==
  /\ extraction.fusion = "invoked"
  /\ doc.status = "completed"
  /\ doc.extracted_data # NoResult

\* the updates of the try block, in the order of the code
StatusOrder ==
  << [status |-> "processing", processing_progress |-> 10],
     [status |-> "unchanged", processing_progress |-> 30],
     [status |-> "unchanged", processing_progress |-> 70],
     [status |-> "completed", processing_progress |-> 100] >>

FailedWrite == [status |-> "failed", processing_progress |-> 0]

sent(i) == [status |-> writes[i].status, processing_progress |-> writes[i].processing_progress]

failedAt == {i \in DOMAIN writes : sent(i) = FailedWrite}

completedWritten == \E i \in DOMAIN writes : sent(i) = StatusOrder[4] /\ writes[i].outcome = "ok"

\* the log is a prefix of StatusOrder, followed by at most one failed(0)
inOrder ==
  /\ \A i \in DOMAIN writes \ failedAt : i <= 4 /\ sent(i) = StatusOrder[i]
  /\ failedAt \subseteq {Len(writes)}

\* C24: in every run of processDocument the status writes are a prefix of
\* processing(10), 30, 70, completed(100), followed by failed(0) only when
\* an error was caught and never when the completed write returned no
\* error; the run ends by returning, success: true exactly when the
\* completed write returned no error and success: false otherwise.
C24_StatusWritesInOrder ==
  /\ inOrder
  /\ failedAt # {} => extraction.error # NoError /\ ~completedWritten
  /\ pc # "returned" => result = NoResult
  /\ pc = "returned" =>
       /\ result.success \in BOOLEAN
       /\ result.success <=> completedWritten
       /\ ~result.success => Len(writes) \in failedAt
  /\ pc \in {"validate", "markProcessing", "checkUrl", "download", "progress30",
             "extract", "pass1", "pass2", "combine", "progress70", "complete",
             "catch", "returned"}

C24_Witness ==
  /\ pc = "returned"
  /\ result.success
  /\ Len(writes) = 4
  /\ \E i \in DOMAIN writes : writes[i].outcome = "error"

\* the update to 'processing' was applied to the row
processingStored ==
  \E i \in DOMAIN writes : sent(i) = StatusOrder[1] /\ writes[i].outcome = "ok"

\* C25: when processDocument has returned after having stored status
\* 'processing', the stored status is 'completed' or 'failed'.
C25_NeverLeftProcessing ==
  (pc = "returned" /\ processingStored) => doc.status \in {"completed", "failed"}

\* ------------------------------------------------------------------------
\* the SQS handler
\* ------------------------------------------------------------------------
allSettled == \A i \in DOMAIN records : records[i].status # "pending"

\* processDocument reported success for record i
reportedSuccess(i) == records[i].returned = [success |-> TRUE]

\* C23: the handler returns statusCode 200 exactly when processDocument
\* reported success for every record; when a record failed (success: false,
\* or a body that does not parse) it throws, and it does either only after
\* every record has settled; the counts successful and failed sum to the
\* number of records.
C23_ReturnsIffAllSucceeded ==
  /\ pc \in {"awaiting", "returned", "thrown"}
  /\ pc # "awaiting" =>
       /\ allSettled
       /\ call.successful + call.failed = Len(records)
       /\ call.failed = Cardinality({i \in DOMAIN records : ~reportedSuccess(i)})
  /\ pc = "returned" <=> (result # NoResult /\ ~isThrow(result))
  /\ pc = "thrown" <=> isThrow(result)
  /\ pc = "returned" =>
       /\ \A i \in DOMAIN records : reportedSuccess(i)
       /\ result.statusCode = 200
       /\ result.body.successful = Len(records) /\ result.body.failed = 0
       /\ result.body.processed = Len(records)
  /\ pc = "thrown" => \E i \in DOMAIN records : ~reportedSuccess(i)

C23_Witness ==
  /\ pc = "thrown"
  /\ Len(records) = 2
  /\ \E i, j \in DOMAIN records :
       /\ records[i].returned = [success |-> FALSE]
       /\ ~records[j].body.parses

\* what the callback of a record with this body ends as when it is the only
\* record of the batch
aloneStatus(body) == IF body.parses /\ body.fate = "ok" THEN "fulfilled" ELSE "rejected"

\* C26: no record reads, overwrites or deletes the temporary file of
\* another: what a record uploads is the PDF it downloaded, and it settles
\* as it settles when processed alone.
C26_TempFilesIsolated ==
  \A i \in DOMAIN records :
    /\ records[i].uploaded \subseteq {i}
    /\ records[i].status # "pending" => records[i].status = aloneStatus(records[i].body)
====
